---- MODULE Spec2Model ----
(***************************************************************************)
(* K-of-N threshold one-time-pad encoder / decoder of padlock              *)
(* (src/pkg/pad/pad.go, the Pad type of lines 741-1395) and its test RNG.  *)
(*                                                                         *)
(* Strings are sequences of byte values (ASCII codes), so that labels,     *)
(* chunk names and record streams are built and parsed byte by byte as the *)
(* code does.  A stream is the sequence of bytes of one collection.        *)
(***************************************************************************)
EXTENDS Integers, Sequences, FiniteSets, TLC

VARIABLES initArgs, initErr, pad, enc, rng, sinks, dec, dpad, output, sec,
          host, twin, mix, parse, calls, dir

vars == <<initArgs, initErr, pad, enc, rng, sinks, dec, dpad, output, sec,
          host, twin, mix, parse, calls, dir>>

(***************************************************************************)
(* Bounds of the exploration.                                              *)
(***************************************************************************)
MaxLen == 2        \* longest plaintext of an encode run
MaxFreeLen == 1    \* longest plaintext encoded with the free random source
MaxBOut == 2       \* largest outputChunkBytes of an encode run
MaxSpin == 3       \* turns followed of an Encode loop that reads nothing
MaxInitN == 28     \* PadInit is tried for totalCopies in -1..MaxInitN
MaxInitK == 3      \* PadInit is tried for requiredCopies in -1..MaxInitK
MaxInitWideN == 5  \* requiredCopies above 2 is tried for totalCopies up to here

\* the (N, K) of the encode and decode runs
RunParams == {<<2, 2>>, <<3, 2>>, <<3, 3>>}

\* the byte values of plaintexts and of the free random source
RunBytes == {0, 1}

(***************************************************************************)
(* Bytes and strings.                                                      *)
(***************************************************************************)
Ch0 == 48          \* '0'
ChColon == 58      \* ':'
ChPlus == 43       \* '+'
ChMinus == 45      \* '-'
ChA == 65          \* 'A'

\* Go's ^ on two bytes
RECURSIVE XorBits(_, _, _)
XorBits(a, b, n) ==
    IF n = 0 THEN 0
    ELSE ((a + b) % 2) + 2 * XorBits(a \div 2, b \div 2, n - 1)

XorByte(a, b) == XorBits(a, b, 8)

XorBytes(x, y) == [j \in 1..Len(x) |-> XorByte(x[j], y[j])]

Zeros(n) == [j \in 1..n |-> 0]

\* all byte strings of length n over the values of the set b
BytesOfLen(n, b) == [1..n -> b]

IsDigit(c) == c >= Ch0 /\ c <= Ch0 + 9

\* fmt.Sprintf("%d", n)
RECURSIVE ItoaNat(_)
ItoaNat(n) ==
    IF n < 10 THEN <<Ch0 + n>>
    ELSE Append(ItoaNat(n \div 10), Ch0 + (n % 10))

Itoa(n) == IF n < 0 THEN <<ChMinus>> \o ItoaNat(0 - n) ELSE ItoaNat(n)

RECURSIVE DigitsValue(_)
DigitsValue(s) ==
    IF s = <<>> THEN 0
    ELSE 10 * DigitsValue(SubSeq(s, 1, Len(s) - 1)) + (s[Len(s)] - Ch0)

\* strconv.Atoi: an optional sign, then one or more decimal digits
Atoi(s) ==
    LET signed == s # <<>> /\ s[1] \in {ChPlus, ChMinus}
        body == IF signed THEN Tail(s) ELSE s
    IN  IF body = <<>> \/ \E j \in 1..Len(body) : ~IsDigit(body[j])
        THEN [ok |-> FALSE, val |-> 0]
        ELSE [ok |-> TRUE,
              val |-> IF signed /\ s[1] = ChMinus
                      THEN 0 - DigitsValue(body) ELSE DigitsValue(body)]

\* strings.Split(s, sep) for a one-byte separator
RECURSIVE Split(_, _)
Split(s, sep) ==
    IF \A j \in 1..Len(s) : s[j] # sep THEN <<s>>
    ELSE LET p == CHOOSE j \in 1..Len(s) :
                      s[j] = sep /\ \A q \in 1..(j - 1) : s[q] # sep
         IN  <<SubSeq(s, 1, p - 1)>> \o Split(SubSeq(s, p + 1, Len(s)), sep)

\* strings.Join(parts, "")
RECURSIVE Join(_)
Join(parts) == IF parts = <<>> THEN <<>> ELSE Head(parts) \o Join(Tail(parts))

\* Go's < on strings: bytewise lexicographic
RECURSIVE StrLess(_, _)
StrLess(a, b) ==
    IF b = <<>> THEN FALSE
    ELSE IF a = <<>> THEN TRUE
    ELSE IF a[1] # b[1] THEN a[1] < b[1]
    ELSE StrLess(Tail(a), Tail(b))

\* sort.Strings: every element moves to the position given by the number of
\* smaller elements, equal elements keeping their relative order
SortStrings(s) ==
    LET rank == [i \in 1..Len(s) |->
                   Cardinality({j \in 1..Len(s) : StrLess(s[j], s[i])})
                   + Cardinality({j \in 1..(i - 1) : s[j] = s[i]})]
    IN  [r \in 1..Len(s) |-> s[CHOOSE i \in 1..Len(s) : rank[i] = r - 1]]

Contains(s, c) == \E j \in 1..Len(s) : s[j] = c

(***************************************************************************)
(* Collection model: labels, chunk names, K-subset table.                  *)
(***************************************************************************)

\* collectionLetterFromIndex (0-based index, i in 0..25)
collectionLetterFromIndex(i) == <<ChA + i>>

\* buildCollectionLabel: "%d%s%d"
buildCollectionLabel(requiredCopies, totalCopies, collLetter) ==
    Itoa(requiredCopies) \o collLetter \o Itoa(totalCopies)

RECURSIVE LeadingDigits(_)
LeadingDigits(s) ==
    IF s = <<>> \/ ~IsDigit(s[1]) THEN 0 ELSE 1 + LeadingDigits(Tail(s))

LabelError == [err |-> TRUE, requiredCopies |-> 0, totalCopies |-> 0,
               collLetter |-> <<>>]

\* extractFromCollectionLabel
extractFromCollectionLabel(label) ==
    IF Len(label) < 3 THEN LabelError
    ELSE LET i == LeadingDigits(label) IN
      IF i = 0 \/ i >= Len(label) - 1 THEN LabelError
      ELSE LET required == Atoi(SubSeq(label, 1, i))
               letterChar == label[i + 1]
               total == Atoi(SubSeq(label, i + 2, Len(label)))
           IN  IF ~required.ok THEN LabelError
               ELSE IF ~total.ok THEN LabelError
               ELSE IF total.val < 2 \/ total.val > 26 THEN LabelError
               ELSE IF required.val < 2 \/ required.val > total.val
                    THEN LabelError
               ELSE IF letterChar < ChA \/ letterChar > ChA + total.val - 1
                    THEN LabelError
               ELSE [err |-> FALSE, requiredCopies |-> required.val,
                     totalCopies |-> total.val, collLetter |-> <<letterChar>>]

\* permutationIndex: 0-based position of collLetter in permutation, -1 if absent
permutationIndex(permutation, collLetter) ==
    IF Len(collLetter) # 1 THEN -1
    ELSE IF ~Contains(permutation, collLetter[1]) THEN -1
    ELSE (CHOOSE j \in 1..Len(permutation) :
              /\ permutation[j] = collLetter[1]
              /\ \A q \in 1..(j - 1) : permutation[q] # collLetter[1]) - 1

\* buildChunkName: "%s:%d:%d"
buildChunkName(collName, chunkNumber, chunkDataBytes) ==
    collName \o <<ChColon>> \o Itoa(chunkNumber)
             \o <<ChColon>> \o Itoa(chunkDataBytes)

NameError == [err |-> TRUE, collName |-> <<>>, chunkNumber |-> 0,
              chunkDataBytes |-> 0]

\* extractFromChunkName
extractFromChunkName(chunkName) ==
    LET parts == Split(chunkName, ChColon) IN
    IF Len(parts) # 3 THEN NameError
    ELSE LET num == Atoi(parts[2])
             bytes == Atoi(parts[3])
         IN  IF ~num.ok \/ num.val <= 0 THEN NameError
             ELSE IF ~bytes.ok \/ bytes.val <= 0 THEN NameError
             ELSE [err |-> FALSE, collName |-> parts[1],
                   chunkNumber |-> num.val, chunkDataBytes |-> bytes.val]

\* the recursive closure comb of UniqueSortedCombinations: all K-long paths
\* of labels with ascending indices, in the order they are appended
RECURSIVE comb(_, _, _, _), combLoop(_, _, _, _)
\* a loop that goes on from the same label, so that a path repeats letters
combLoopRepeat(i, path, K, N) ==
    IF i >= N THEN <<>>
    ELSE comb(i, Append(path, collectionLetterFromIndex(i)), K, N)
         \o combLoop(i + 1, path, K, N)

comb(start, path, K, N) ==
    IF Len(path) = K THEN <<path>> ELSE combLoop(start, path, K, N)
combLoop(i, path, K, N) ==
    IF i >= N THEN <<>>
    ELSE comb(i + 1, Append(path, collectionLetterFromIndex(i)), K, N)
         \o combLoop(i + 1, path, K, N)

\* UniqueSortedCombinations: count, per-label sorted lists, table of ciphers
UniqueSortedCombinations(K, N) ==
    LET labels == [i \in 1..N |-> collectionLetterFromIndex(i - 1)]
        allCombos == comb(0, <<>>, K, N)
        joined == [c \in 1..Len(allCombos) |-> Join(allCombos[c])]
        keys == {joined[c] : c \in 1..Len(joined)}
        used == {labels[i] : i \in 1..N} \cap
                {allCombos[c][j] : c \in 1..Len(allCombos), j \in 1..K}
        result == [l \in used |->
                     SortStrings(SelectSeq(joined, LAMBDA s : Contains(s, l[1])))]
        uniqueMap == [k \in keys |-> [j \in 1..K |-> <<>>]]
    IN  [count |-> IF labels[1] \in used THEN Len(result[labels[1]]) ELSE 0,
         result |-> result,
         uniqueMap |-> uniqueMap]

\* the zero value of Pad
EmptyPad == [TotalCopies |-> 0, RequiredCopies |-> 0, Collections |-> <<>>,
             PermutationCount |-> 0, Permutations |-> <<>>, Ciphers |-> <<>>]

\* PadInit after validation: parameters, labels, K-subset table
PadFill(totalCopies, requiredCopies) ==
    LET usc == UniqueSortedCombinations(requiredCopies, totalCopies) IN
    [TotalCopies |-> totalCopies,
     RequiredCopies |-> requiredCopies,
     Collections |-> [i \in 1..totalCopies |->
         buildCollectionLabel(requiredCopies, totalCopies,
                              collectionLetterFromIndex(i - 1))],
     PermutationCount |-> usc.count,
     Permutations |-> usc.result,
     Ciphers |-> usc.uniqueMap]

\* a PadInit that lets requiredCopies exceed totalCopies
PadInitNoUpperK(p, totalCopies, requiredCopies) ==
    IF totalCopies < 2 \/ totalCopies > 26 THEN [err |-> TRUE, pad |-> p]
    ELSE IF requiredCopies < 2 THEN [err |-> TRUE, pad |-> p]
    ELSE [err |-> FALSE, pad |-> PadFill(totalCopies, requiredCopies)]

\* PadInit: validation of N and K, then the pad is filled in
PadInit(p, totalCopies, requiredCopies) ==
    IF totalCopies < 2 \/ totalCopies > 26 THEN [err |-> TRUE, pad |-> p]
    ELSE IF requiredCopies < 2 THEN [err |-> TRUE, pad |-> p]
    ELSE IF requiredCopies > totalCopies THEN [err |-> TRUE, pad |-> p]
    ELSE [err |-> FALSE, pad |-> PadFill(totalCopies, requiredCopies)]

\* NewPadForEncode
NewPadForEncode(totalCopies, requiredCopies) ==
    PadInit(EmptyPad, totalCopies, requiredCopies)

\* NewPadForDecode
NewPadForDecode(availableCopies) ==
    PadInit(EmptyPad, availableCopies, availableCopies)


(***************************************************************************)
(* Pad construction.                                                       *)
(***************************************************************************)

NoEnc == [pc |-> "none"]
NoDec == [pc |-> "none"]
NoRng == [kind |-> "none", counter |-> 0, bytes |-> {}, reads |-> 0,
          failed |-> FALSE]
NoSec == [pc |-> "none"]
NoHost == [faulty |-> FALSE, cancelled |-> "no", cancelChunk |-> 0,
           events |-> <<>>]
NoTwin == [pc |-> "none"]
NoMix == [pc |-> "none"]
NoParse == [pc |-> "none"]
NoCalls == [pc |-> "none"]
NoDir == [pc |-> "none"]

\* the (totalCopies, requiredCopies) pairs tried for construction
InitInputs ==
    {a \in (-1..MaxInitN) \X (-1..MaxInitK) :
        a[2] <= 2 \/ a[1] <= MaxInitWideN}

InitPad ==
    /\ initArgs \in InitInputs
    /\ initErr = "pending"
    /\ pad = EmptyPad
    /\ enc = NoEnc /\ rng = NoRng /\ sinks = <<>>
    /\ dec = NoDec /\ dpad = EmptyPad /\ output = <<>>
    /\ sec = NoSec /\ host = NoHost /\ twin = NoTwin /\ mix = NoMix
    /\ parse = NoParse /\ calls = NoCalls /\ dir = NoDir

\* p, err := NewPadForEncode(ctx, totalCopies, requiredCopies)
DoNewPadForEncode ==
    /\ initErr = "pending"
    /\ LET r == NewPadForEncode(initArgs[1], initArgs[2]) IN
         /\ pad' = r.pad
         /\ initErr' = IF r.err THEN "error" ELSE "ok"
    /\ UNCHANGED <<initArgs, enc, rng, sinks, dec, dpad, output, sec,
                 host, twin, mix,
                   parse, calls, dir>>

NextPad == DoNewPadForEncode

SpecPad == InitPad /\ [][NextPad]_vars

(***************************************************************************)
(* Random sources.  "test" is TestRNG (test_rng.go): a byte counter.       *)
(* "any" stands for an arbitrary RNG: every read may return any bytes of   *)
(* the set rng.bytes or fail.                                              *)
(***************************************************************************)

\* NewTestRNG(initialValue)
NewTestRNG(initialValue) ==
    [kind |-> "test", counter |-> initialValue, bytes |-> {}, reads |-> 0,
     failed |-> FALSE]

\* an arbitrary source of bytes of the set b
AnyRNG(b) == [kind |-> "any", counter |-> 0, bytes |-> b, reads |-> 0,
              failed |-> FALSE]

\* TestRNG.Read with a context that does not simulate a disabled quantum
\* source: p[i] = counter; counter++ (a byte, wraps at 256)
TestRNGRead(r, n) ==
    [bytes |-> [j \in 1..n |-> (r.counter + j - 1) % 256],
     rng |-> [r EXCEPT !.counter = (r.counter + n) % 256,
                       !.reads = r.reads + 1],
     err |-> FALSE]

\* the outcomes of one randomSource.Read(ctx, buf) with len(buf) = n
RngRead(r, n) ==
    IF r.kind = "test" THEN {TestRNGRead(r, n)}
    ELSE LET called == [r EXCEPT !.reads = r.reads + 1] IN
         {[bytes |-> b, rng |-> called, err |-> FALSE] :
             b \in BytesOfLen(n, r.bytes)}
         \cup {[bytes |-> <<>>, rng |-> [called EXCEPT !.failed = TRUE],
                err |-> TRUE]}

\* the outcomes of the k successive reads of n bytes made for one subset:
\* the pads read so far, the source afterwards, whether a read failed
RECURSIVE RngReads(_, _, _)
RngReads(r, k, n) ==
    IF k = 0 THEN {[pads |-> <<>>, rng |-> r, err |-> FALSE]}
    ELSE UNION {
           IF first.err
           THEN {[pads |-> <<>>, rng |-> first.rng, err |-> TRUE]}
           ELSE {[pads |-> <<first.bytes>> \o rest.pads,
                  rng |-> rest.rng, err |-> rest.err] :
                     rest \in RngReads(first.rng, k - 1, n)}
           : first \in RngRead(r, n)}

(***************************************************************************)
(* Encode.                                                                 *)
(***************************************************************************)

Min(a, b) == IF a < b THEN a ELSE b

\* a read that gives up a final chunk shorter than the buffer
ReadFullDropShort(input, n) ==
    LET got == IF Len(input) < n THEN 0 ELSE n IN
    [data |-> SubSeq(input, 1, got),
     rest |-> SubSeq(input, got + 1, Len(input)),
     err |-> IF got = n THEN "nil" ELSE "EOF"]

\* io.ReadFull(input, buffer) on a finite input without read errors
ReadFull(input, n) ==
    LET got == Min(n, Len(input)) IN
    [data |-> SubSeq(input, 1, got),
     rest |-> SubSeq(input, got + 1, Len(input)),
     err |-> IF got = n THEN "nil"
             ELSE IF got = 0 THEN "EOF" ELSE "ErrUnexpectedEOF"]

RECURSIVE XorAll(_, _)
XorAll(acc, pads) ==
    IF pads = <<>> THEN acc ELSE XorAll(XorBytes(acc, Head(pads)), Tail(pads))

\* a share generation that leaves the plaintext in cipher[0]
MakeCipherPlain(chunkData, pads) == <<chunkData>> \o pads

\* a share generation that XORs only the first pad into cipher[0]
MakeCipherFirstPad(chunkData, pads) ==
    <<XorBytes(chunkData, pads[1])>> \o pads

\* a share generation that uses its first pad for every pad share
MakeCipherOnePad(chunkData, pads) ==
    <<XorAll(chunkData, pads)>> \o [i \in 1..Len(pads) |-> pads[1]]

\* encodeOneChunk, one iteration of the cipher loop (lines 1111-1128):
\* cipher[0] = chunkData ^ pads[1] ^ ... ^ pads[K-1], cipher[i] = pads[i]
MakeCipher(chunkData, pads) == <<XorAll(chunkData, pads)>> \o pads

\* a record body that writes every share from position 0 of its subset
RecordBodyCarrier(p, collLetter) ==
    Join([q \in 1..Len(p.Permutations[collLetter]) |->
            p.Ciphers[p.Permutations[collLetter][q]][1]])

\* a record body that writes the shares of the last subset first
RecordBodyReversed(p, collLetter) ==
    LET count == Len(p.Permutations[collLetter]) IN
    Join([q \in 1..count |->
            LET perm == p.Permutations[collLetter][count + 1 - q]
            IN  p.Ciphers[perm][permutationIndex(perm, collLetter) + 1]])

\* encodeOneChunk, the share loop of one collection (lines 1156-1167)
RecordBody(p, collLetter) ==
    Join([q \in 1..Len(p.Permutations[collLetter]) |->
            LET perm == p.Permutations[collLetter][q]
            IN  p.Ciphers[perm][permutationIndex(perm, collLetter) + 1]])

\* encodeOneChunk, the name header of one record (lines 1145-1150)
NameHeader(collName, chunkNumber, chunkDataBytes) ==
    LET chunkName == buildChunkName(collName, chunkNumber, chunkDataBytes)
    IN  <<Len(chunkName) % 256>> \o chunkName

Plaintexts(n) == UNION {BytesOfLen(k, RunBytes) : k \in 0..n}

ZeroPlaintexts == {Zeros(n) : n \in 0..MaxLen}

\* a run: a pad built by NewPadForEncode, an input, an RNG, empty collections
InitRunWith(inputs, faulty) ==
    \E param \in RunParams : \E bout \in 0..MaxBOut : \E in \in inputs :
        /\ initArgs = param
        /\ initErr = "ok"
        /\ pad = NewPadForEncode(param[1], param[2]).pad
        /\ enc = [pc |-> "start", result |-> "none",
                  outputChunkBytes |-> bout, inputChunkBytes |-> 0,
                  plaintext |-> in[1], input |-> in[1],
                  chunkIndex |-> 0, chunkData |-> <<>>, readErr |-> "nil",
                  keysLeft |-> {}, coll |-> 0]
        /\ rng = in[2]
        /\ sinks = [i \in 1..param[1] |-> <<>>]
        /\ dec = NoDec /\ dpad = EmptyPad /\ output = <<>>
        /\ sec = NoSec /\ twin = NoTwin /\ mix = NoMix
        /\ parse = NoParse /\ calls = NoCalls /\ dir = NoDir
        /\ host = [NoHost EXCEPT !.faulty = faulty]

\* the runs: any plaintext with the counter source of the tests, the short
\* plaintexts with the free source
InitRun ==
    InitRunWith((Plaintexts(MaxLen) \X {NewTestRNG(0)})
                \cup (Plaintexts(MaxFreeLen) \X {AnyRNG(RunBytes)}),
                FALSE)

\* the runs whose streams are then damaged: all-zero plaintexts and pads
InitZeroRun == InitRunWith(ZeroPlaintexts \X {AnyRNG({0})}, FALSE)

\* Encode, lines 1053-1058: the chunk size and the start of the loop
EncodeStart ==
    /\ enc.pc = "start"
    /\ enc' = [enc EXCEPT !.pc = "read", !.chunkIndex = 1,
                 !.inputChunkBytes =
                     enc.outputChunkBytes \div pad.PermutationCount]
    /\ UNCHANGED <<initArgs, initErr, pad, rng, sinks, dec, dpad, output, sec,
                 host, twin, mix,
                   parse, calls, dir>>

\* Encode, lines 1061-1077 for a read that yields no byte
\* (the loop turns without end when inputChunkBytes is 0; the exploration
\* stops following it after a few turns)
EncodeRead ==
    /\ enc.pc = "read"
    /\ LET r == ReadFull(enc.input, enc.inputChunkBytes) IN
         /\ IF Len(r.data) > 0
            THEN enc' = [enc EXCEPT !.pc = "gen", !.input = r.rest,
                           !.chunkData = r.data, !.readErr = r.err,
                           !.keysLeft = DOMAIN pad.Ciphers]
            ELSE IF r.err \in {"EOF", "ErrUnexpectedEOF"}
            THEN enc' = [enc EXCEPT !.pc = "done", !.result = "ok",
                           !.readErr = r.err]
            ELSE /\ enc.chunkIndex <= MaxSpin
                 /\ enc' = [enc EXCEPT !.chunkIndex = enc.chunkIndex + 1,
                              !.readErr = r.err]
    /\ UNCHANGED <<initArgs, initErr, pad, rng, sinks, dec, dpad, output, sec,
                 host, twin, mix,
                   parse, calls, dir>>

\* an Encode that goes on to the records after a failed read of the source
RngFailedIgnored(e) == [e EXCEPT !.pc = "write", !.coll = 1]

\* encodeOneChunk, lines 1118-1121, and Encode, lines 1065-1067: the error
\* of randomSource.Read is returned
RngFailed(e) == [e EXCEPT !.pc = "done", !.result = "error"]

\* encodeOneChunk, lines 1110-1129: one iteration of the range over
\* p.Ciphers (a Go map: the keys come in any order)
EncodeGenCipher ==
    /\ enc.pc = "gen"
    /\ \E key \in enc.keysLeft :
       \E o \in RngReads(rng, Len(pad.Ciphers[key]) - 1, Len(enc.chunkData)) :
         /\ rng' = o.rng
         /\ IF o.err
            THEN /\ enc' = RngFailed(enc)
                 /\ pad' = pad
            ELSE /\ pad' = [pad EXCEPT !.Ciphers[key] =
                                          MakeCipher(enc.chunkData, o.pads)]
                 /\ enc' = [enc EXCEPT
                              !.keysLeft = enc.keysLeft \ {key},
                              !.pc = IF enc.keysLeft = {key}
                                     THEN "write" ELSE "gen",
                              !.coll = 1]
    /\ UNCHANGED <<initArgs, initErr, sinks, dec, dpad, output, sec,
                 host, twin, mix,
                   parse, calls, dir>>

\* what the host's sinks answer during one iteration of the collection loop:
\* every call succeeds, or (unreliable sinks) newChunk fails, or the Write
\* call number `at` fails (1 is the name header), or Close fails
SinkOutcomes(faulty, writes) ==
    {[fail |-> "none", at |-> 0]}
    \cup (IF faulty
          THEN {[fail |-> "newChunk", at |-> 0], [fail |-> "Close", at |-> 0]}
               \cup {[fail |-> "Write", at |-> k] : k \in 1..writes}
          ELSE {})

\* one call made on the host: newChunk, a failed Write, or Close
Event(op, coll, chunk, err) ==
    [op |-> op, coll |-> coll, chunk |-> chunk, err |-> err]

\* an iteration that never calls Close
SinkCallsNoClose(o, coll, chunk) ==
    IF o.fail = "newChunk" THEN <<Event("newChunk", coll, chunk, TRUE)>>
    ELSE IF o.fail = "Write"
    THEN <<Event("newChunk", coll, chunk, FALSE),
           Event("Write", coll, chunk, TRUE)>>
    ELSE <<Event("newChunk", coll, chunk, FALSE)>>

\* encodeOneChunk, lines 1139-1170: the calls one iteration of the
\* collection loop makes on the host, as far as the log keeps them.  After a
\* failed newChunk or Write the function returns (lines 1141, 1152, 1164);
\* otherwise it ends with w.Close() (line 1170)
SinkCalls(o, coll, chunk) ==
    IF o.fail = "newChunk" THEN <<Event("newChunk", coll, chunk, TRUE)>>
    ELSE IF o.fail = "Write"
    THEN <<Event("newChunk", coll, chunk, FALSE),
           Event("Write", coll, chunk, TRUE)>>
    ELSE <<Event("newChunk", coll, chunk, FALSE),
           Event("Close", coll, chunk, o.fail = "Close")>>

\* encodeOneChunk, lines 1132-1171 for one collection: label, newChunk,
\* name header, shares, Close (whose result is dropped, line 1170); every
\* error return leaves the function at once (lines 1141, 1152, 1164); after
\* the last collection Encode looks at the result of its read (lines
\* 1071-1077)
EncodeWriteRecord ==
    /\ enc.pc = "write"
    /\ LET collName == pad.Collections[enc.coll]
           lab == extractFromCollectionLabel(collName)
           header == NameHeader(collName, enc.chunkIndex, Len(enc.chunkData))
           record == header \o RecordBody(pad, lab.collLetter)
           shares == Len(pad.Permutations[lab.collLetter])
       IN  IF lab.err
           THEN /\ enc' = [enc EXCEPT !.pc = "done", !.result = "error"]
                /\ UNCHANGED <<sinks, host>>
           ELSE \E o \in SinkOutcomes(host.faulty, 1 + shares) :
                LET accepted ==
                        IF o.at = 1 THEN <<>>
                        ELSE SubSeq(record, 1, Len(header)
                                       + (o.at - 2) * Len(enc.chunkData))
                IN  /\ host' = [host EXCEPT !.events =
                          @ \o SinkCalls(o, enc.coll, enc.chunkIndex)]
                    /\ IF o.fail = "newChunk"
                       THEN /\ enc' = [enc EXCEPT !.pc = "done",
                                                   !.result = "error"]
                            /\ sinks' = sinks
                       ELSE IF o.fail = "Write"
                       THEN /\ enc' = [enc EXCEPT !.pc = "done",
                                                   !.result = "error"]
                            /\ sinks' = [sinks EXCEPT
                                           ![enc.coll] = @ \o accepted]
                       ELSE /\ sinks' = [sinks EXCEPT
                                           ![enc.coll] = @ \o record]
                            /\ enc' =
                                 IF enc.coll < Len(pad.Collections)
                                 THEN [enc EXCEPT !.coll = enc.coll + 1]
                                 ELSE IF enc.readErr \in
                                           {"EOF", "ErrUnexpectedEOF"}
                                 THEN [enc EXCEPT !.pc = "done",
                                                  !.result = "ok"]
                                 ELSE [enc EXCEPT
                                         !.pc = "read",
                                         !.chunkIndex = enc.chunkIndex + 1]
    /\ UNCHANGED <<initArgs, initErr, pad, rng, dec, dpad, output, sec,
                   twin, mix,
                   parse, calls, dir>>

NextEncode == EncodeStart \/ EncodeRead \/ EncodeGenCipher \/ EncodeWriteRecord

SpecEncode == InitRun /\ [][NextEncode]_vars

\* the runs on sinks that may fail: all-zero plaintexts and pads
InitFaultyRun == InitRunWith(ZeroPlaintexts \X {AnyRNG({0})}, TRUE)

SpecSinks == InitFaultyRun /\ [][NextEncode]_vars

(***************************************************************************)
(* Decode.                                                                 *)
(***************************************************************************)

\* collectionState of Decode (lines 1208-1222)
NewCollectionState ==
    [nextChunkNumber |-> 1, collectionName |-> <<>>,
     collectionLetter |-> <<>>, done |-> FALSE]

\* header checks that leave out the chunk number
HeaderMatchesNoNumber(st, p, nm, lab) ==
    /\ st.collectionName = <<>> \/ st.collectionName = nm.collName
    /\ lab.requiredCopies = p.RequiredCopies
    /\ lab.totalCopies = p.TotalCopies

\* Decode, lines 1282-1307: the label is the one first seen on this stream,
\* K and N are those of the pad, the chunk number is the expected one
HeaderMatches(st, p, nm, lab) ==
    /\ st.collectionName = <<>> \/ st.collectionName = nm.collName
    /\ lab.requiredCopies = p.RequiredCopies
    /\ lab.totalCopies = p.TotalCopies
    /\ nm.chunkNumber = st.nextChunkNumber

RecordFailure(kind, rd, st, p, reinit, cdb) ==
    [kind |-> kind, rest |-> rd, st |-> st, pad |-> p, reinit |-> reinit,
     chunkDataBytes |-> cdb, chunk |-> <<>>]

\* a body read that accepts a short body
ReadBodyShort(rd, readLength) ==
    [err |-> FALSE,
     chunk |-> SubSeq(rd, 1, Min(readLength, Len(rd))),
     rest |-> SubSeq(rd, Min(readLength, Len(rd)) + 1, Len(rd))]

\* a body read that takes one byte more than the body from the stream
ReadBodyAhead(rd, readLength) ==
    IF Len(rd) < readLength
    THEN [err |-> TRUE, chunk |-> <<>>, rest |-> <<>>]
    ELSE [err |-> FALSE, chunk |-> SubSeq(rd, 1, readLength),
          rest |-> SubSeq(rd, readLength + 2, Len(rd))]

\* Decode, lines 1315-1323: io.ReadFull of the record body
ReadBody(rd, readLength) ==
    IF Len(rd) < readLength
    THEN [err |-> TRUE, chunk |-> <<>>, rest |-> <<>>]
    ELSE [err |-> FALSE, chunk |-> SubSeq(rd, 1, readLength),
          rest |-> SubSeq(rd, readLength + 1, Len(rd))]

\* Decode, lines 1234-1324: one iteration of the loop over the streams, for
\* the stream with remaining bytes rd and collectionState st; p is the pad,
\* reinit is padReinitialized, cdb is chunkDataBytes
ReadRecord(rd, st, p, reinit, cdb) ==
    IF rd = <<>>
    THEN RecordFailure("eof", rd, [st EXCEPT !.done = TRUE], p, reinit, cdb)
    ELSE
    LET nameLength == rd[1]
        afterLength == Tail(rd)
    IN
    IF Len(afterLength) < nameLength
    THEN RecordFailure("error", rd, st, p, reinit, cdb)
    ELSE
    LET nameBuf == SubSeq(afterLength, 1, nameLength)
        afterName == SubSeq(afterLength, nameLength + 1, Len(afterLength))
        nm == extractFromChunkName(nameBuf)
    IN
    IF nm.err THEN RecordFailure("error", rd, st, p, reinit, 0)
    ELSE
    LET lab == extractFromCollectionLabel(nm.collName) IN
    IF lab.err
    THEN RecordFailure("error", rd, st, p, reinit, nm.chunkDataBytes)
    ELSE
    LET init == IF reinit THEN [err |-> FALSE, pad |-> p]
                ELSE PadInit(p, lab.totalCopies, lab.requiredCopies)
        p2 == init.pad
    IN
    IF init.err
    THEN RecordFailure("error", rd, st, p2, TRUE, nm.chunkDataBytes)
    ELSE IF ~HeaderMatches(st, p2, nm, lab)
    THEN RecordFailure("error", rd, st, p2, TRUE, nm.chunkDataBytes)
    ELSE
    LET body == ReadBody(afterName, nm.chunkDataBytes * p2.PermutationCount)
        st2 == [st EXCEPT !.collectionName = nm.collName,
                          !.collectionLetter =
                              IF st.collectionName = <<>>
                              THEN lab.collLetter ELSE @,
                          !.nextChunkNumber = @ + 1]
    IN
    IF body.err
    THEN RecordFailure("error", rd, st2, p2, TRUE, nm.chunkDataBytes)
    ELSE [kind |-> "ok", rest |-> body.rest, st |-> st2, pad |-> p2,
          reinit |-> TRUE, chunkDataBytes |-> nm.chunkDataBytes,
          chunk |-> body.chunk]

\* Decode, lines 1233-1325: the loop over the streams for one chunk, from
\* stream i on; it stops at the first stream whose read fails
RECURSIVE ReadAll(_, _, _, _)
ReadAll(i, sofar, rds, sts) ==
    IF i > Len(rds) \/ sofar.kind = "error" THEN sofar
    ELSE LET one == {ReadRecord(rds[i], sts[i], sofar.pad, sofar.reinit,
                                sofar.chunkDataBytes)}
             next == {[kind |-> IF r.kind = "error" THEN "error" ELSE "read",
                       i |-> IF r.kind = "error" THEN i ELSE 0,
                       readers |-> [sofar.readers EXCEPT ![i] = r.rest],
                       states |-> [sofar.states EXCEPT ![i] = r.st],
                       pad |-> r.pad, reinit |-> r.reinit,
                       chunkDataBytes |-> r.chunkDataBytes,
                       chunks |-> [sofar.chunks EXCEPT ![i] = r.chunk]] :
                      r \in one}
         IN  ReadAll(i + 1, CHOOSE n \in next : TRUE, rds, sts)

\* Decode, lines 1328-1338: the scan that sets allDone and anyDone
RECURSIVE ScanDone(_, _, _)
ScanDone(states, i, anyDone) ==
    IF i > Len(states) THEN [allDone |-> TRUE, anyDone |-> anyDone]
    ELSE IF ~states[i].done THEN [allDone |-> FALSE, anyDone |-> anyDone]
    ELSE ScanDone(states, i + 1, TRUE)

\* 0-based index of permutation in the list perm, -1 if absent
PermIndex(perm, permutation) ==
    IF \A j \in 1..Len(perm) : perm[j] # permutation THEN -1
    ELSE (CHOOSE j \in 1..Len(perm) :
              /\ perm[j] = permutation
              /\ \A q \in 1..(j - 1) : perm[q] # permutation) - 1

\* Decode, lines 1363-1386: XOR of one share per letter of the chosen subset;
\* the share of chunkLetters[i] is read from chunks[i]
RECURSIVE XorShares(_, _, _, _, _, _)
XorShares(i, acc, chunkLetters, permutation, chunks, p) ==
    IF i > Len(chunkLetters) THEN [kind |-> "ok", data |-> acc]
    ELSE IF chunkLetters[i] \notin DOMAIN p.Permutations
    THEN [kind |-> "error", data |-> <<>>]
    ELSE
    LET permIndex == PermIndex(p.Permutations[chunkLetters[i]], permutation)
        permBase == permIndex * Len(acc)
    IN
    IF permIndex = -1 THEN [kind |-> "error", data |-> <<>>]
    ELSE IF Len(acc) > 0 /\ permBase + Len(acc) > Len(chunks[i])
    THEN [kind |-> "panic", data |-> <<>>]
    ELSE XorShares(i + 1,
                   XorBytes(acc, SubSeq(chunks[i], permBase + 1,
                                        permBase + Len(acc))),
                   chunkLetters, permutation, chunks, p)

\* Decode, lines 1349-1357: the letters of all streams, sorted, the first K
ChosenLetters(states, K) ==
    SubSeq(SortStrings([i \in 1..Len(states) |-> states[i].collectionLetter]),
           1, K)

\* Decode, lines 1327-1392: what follows the reads of one chunk
Combine(states, chunks, p, cdb) ==
    LET scan == ScanDone(states, 1, FALSE) IN
    IF scan.allDone THEN [kind |-> "return", data |-> <<>>]
    ELSE IF scan.anyDone THEN [kind |-> "return", data |-> <<>>]
    ELSE IF Len(states) < p.RequiredCopies
    THEN [kind |-> "error", data |-> <<>>]
    ELSE LET chunkLetters == ChosenLetters(states, p.RequiredCopies)
         IN  XorShares(1, Zeros(cdb), chunkLetters, Join(chunkLetters),
                       chunks, p)

\* the lists of distinct collection indices (1-based) of every length 1..n
RECURSIVE Orders(_, _)
Orders(n, len) ==
    IF len = 0 THEN {<<>>}
    ELSE LET shorter == Orders(n, len - 1) IN
         shorter \cup
         {Append(o, c) : o \in {x \in shorter : Len(x) = len - 1},
                         c \in 1..n}

IsInjective(o) == \A a, b \in 1..Len(o) : a # b => o[a] # o[b]

IsAscending(o) == \A a \in 1..(Len(o) - 1) : o[a] < o[a + 1]

StreamOrders(n) == {o \in Orders(n, n) : Len(o) >= 1 /\ IsInjective(o)}

\* the bytes written in place of a stream byte to build malformed streams
TamperBytes == {0, Ch0 + 1, Ch0 + 2, Ch0 + 3, ChA, ChA + 1, ChColon}

\* the pads Decode is called on: the pad of NewPadForDecode(m) where that
\* succeeds, or the pad that encoded
DecodePads(m) ==
    {r.pad : r \in {x \in {NewPadForDecode(m)} : ~x.err}} \cup {pad}

\* Decode is called, after a successful Encode, on the streams of some of
\* the collections in some order
StartDecode ==
    /\ enc.pc = "done" /\ enc.result = "ok"
    /\ dec.pc = "none"
    /\ \E order \in StreamOrders(Len(sinks)) :
         LET streams == [j \in 1..Len(order) |-> sinks[order[j]]] IN
         /\ dec' = [pc |-> "read", result |-> "none", order |-> order,
                    given |-> streams, readers |-> streams,
                    states |-> [j \in 1..Len(order) |-> NewCollectionState],
                    padReinitialized |-> FALSE, chunkDataBytes |-> 0,
                    chunkIndex |-> 1, i |-> 0, tampered |-> "no"]
         /\ dpad' \in DecodePads(Len(order))
    /\ UNCHANGED <<initArgs, initErr, pad, enc, rng, sinks, output, sec,
                 host, twin, mix,
                   parse, calls, dir>>

Untouched ==
    /\ dec.pc = "read" /\ dec.chunkIndex = 1
    /\ dec.tampered = "no"
    /\ IsAscending(dec.order)

\* a stream handed to Decode is cut short
TruncateStream ==
    /\ Untouched
    /\ \E j \in 1..Len(dec.given) : \E n \in 0..(Len(dec.given[j]) - 1) :
         LET streams == [dec.given EXCEPT ![j] = SubSeq(@, 1, n)] IN
         dec' = [dec EXCEPT !.given = streams, !.readers = streams,
                            !.tampered = "cut"]
    /\ UNCHANGED <<initArgs, initErr, pad, enc, rng, sinks, dpad, output, sec,
                 host, twin, mix,
                   parse, calls, dir>>

\* one byte of a stream handed to Decode is replaced
SetStreamByte ==
    /\ Untouched
    /\ \E j \in 1..Len(dec.given) : \E pos \in 1..Len(dec.given[j]) :
       \E v \in TamperBytes \ {dec.given[j][pos]} :
         LET streams == [dec.given EXCEPT ![j][pos] = v] IN
         dec' = [dec EXCEPT !.given = streams, !.readers = streams,
                            !.tampered = "set"]
    /\ UNCHANGED <<initArgs, initErr, pad, enc, rng, sinks, dpad, output, sec,
                 host, twin, mix,
                   parse, calls, dir>>

\* Decode, lines 1229-1394: one turn of the loop over the chunks: every
\* stream is read, then the end test, the choice of the subset, the XOR and
\* the write to the output; dec.i is the stream at which a read failed
DecodeChunk ==
    /\ dec.pc = "read"
    /\ \E a \in {ReadAll(1, [kind |-> "read", i |-> 0,
                             readers |-> dec.readers, states |-> dec.states,
                             pad |-> dpad, reinit |-> dec.padReinitialized,
                             chunkDataBytes |-> dec.chunkDataBytes,
                             chunks |-> [j \in 1..Len(dec.readers) |-> <<>>]],
                         dec.readers, dec.states)} :
       \E c \in {Combine(a.states, a.chunks, a.pad, a.chunkDataBytes)} :
       \E read \in {[dec EXCEPT !.readers = a.readers, !.states = a.states,
                                !.padReinitialized = a.reinit,
                                !.chunkDataBytes = a.chunkDataBytes,
                                !.i = a.i]} :
           /\ dpad' = a.pad
           /\ IF a.kind = "error"
              THEN /\ output' = output
                   /\ dec' = [read EXCEPT !.pc = "done", !.result = "error"]
              ELSE IF c.kind = "ok"
              THEN /\ output' = output \o c.data
                   /\ dec' = [read EXCEPT !.chunkIndex = @ + 1]
              ELSE /\ output' = output
                   /\ dec' = [read EXCEPT
                                !.pc = "done",
                                !.result = IF c.kind = "return" THEN "ok"
                                           ELSE c.kind]
    /\ UNCHANGED <<initArgs, initErr, pad, enc, rng, sinks, sec,
                 host, twin, mix,
                   parse, calls, dir>>

NextDecode == StartDecode \/ DecodeChunk

\* encode, then decode of the untouched streams of some collections
Next == NextEncode \/ NextDecode

Spec == InitRun /\ [][Next]_vars

\* encode, then decode of streams of which one may have been damaged
NextDamaged == NextEncode \/ NextDecode \/ TruncateStream \/ SetStreamByte

SpecDamaged == InitZeroRun /\ [][NextDamaged]_vars

(***************************************************************************)
(* C10: pad construction succeeds exactly when 2 <= N <= 26 and            *)
(* 2 <= K <= N; every other (N, K) gives an error; a constructed pad       *)
(* records N and K and holds exactly N pairwise different labels.          *)
(***************************************************************************)
C10_PadInitExactlyValid ==
    initErr # "pending" =>
        LET N == initArgs[1]
            K == initArgs[2]
        IN  /\ (initErr = "ok") <=> (2 <= N /\ N <= 26 /\ 2 <= K /\ K <= N)
            /\ initErr = "ok" =>
                 /\ pad.TotalCopies = N
                 /\ pad.RequiredCopies = K
                 /\ Len(pad.Collections) = N
                 /\ Cardinality({pad.Collections[i] : i \in 1..N}) = N
            /\ initErr = "error" => pad = EmptyPad

C10_Witness ==
    /\ initErr = "ok"
    /\ initArgs = <<26, 2>>
    /\ Len(pad.Collections) = 26

(***************************************************************************)
(* Notions used by the properties below.                                   *)
(***************************************************************************)

\* bytes (from, from + n] of the plaintext, as far as it reaches
PlainChunk(text, from, n) == SubSeq(text, from + 1, Min(from + n, Len(text)))

\* the streams handed to Decode are whole and in ascending collection order,
\* K or more of them
AscendingQuorum ==
    /\ dec.pc # "none"
    /\ dec.tampered = "no"
    /\ IsAscending(dec.order)
    /\ Len(dec.order) >= pad.RequiredCopies

C3_SharesXorToChunk ==
    enc.pc \in {"gen", "write"} =>
        /\ enc.chunkData =
               PlainChunk(enc.plaintext,
                          (enc.chunkIndex - 1) * enc.inputChunkBytes,
                          enc.inputChunkBytes)
        /\ \A key \in (DOMAIN pad.Ciphers) \ enc.keysLeft :
             LET cipher == pad.Ciphers[key] IN
             /\ Len(cipher) = pad.RequiredCopies
             /\ \A q \in 1..Len(cipher) : Len(cipher[q]) = Len(enc.chunkData)
             /\ XorAll(Zeros(Len(enc.chunkData)), cipher) = enc.chunkData

\* the second chunk of a 3-of-3 pad: the byte 1 is shared as 0, 2, 3
C3_Witness ==
    /\ enc.pc = "write"
    /\ enc.chunkIndex = 2
    /\ pad.RequiredCopies = 3
    /\ enc.chunkData = <<1>>
    /\ rng.kind = "test"
    /\ \E key \in DOMAIN pad.Ciphers :
         pad.Ciphers[key] = <<<<0>>, <<2>>, <<3>>>>

(***************************************************************************)
(* C5: order independence.  Decode over the complete streams of K or more  *)
(* collections gives the same result in whatever order the streams are     *)
(* listed: it succeeds and its output is the plaintext.                    *)
(***************************************************************************)
C5_AnyOrderDecodes ==
    (/\ dec.pc = "done"
     /\ dec.tampered = "no"
     /\ Len(dec.order) >= pad.RequiredCopies)
    => (dec.result = "ok" /\ output = enc.plaintext)

(***************************************************************************)
(* C9: chunk size too small.  When outputChunkBytes divided by the number  *)
(* of subsets per collection is below 1, Encode returns an error and has   *)
(* read no input and written no record.                                    *)
(***************************************************************************)
C9_ChunkTooSmall ==
    (/\ enc.pc \notin {"none", "start"}
     /\ enc.outputChunkBytes \div pad.PermutationCount < 1)
    => /\ enc.pc = "done" /\ enc.result = "error"
       /\ enc.input = enc.plaintext
       /\ \A j \in 1..Len(sinks) : sinks[j] = <<>>

(***************************************************************************)
(* Records as a reader of the streams sees them.                           *)
(***************************************************************************)

\* C(n, k)
RECURSIVE Binomial(_, _)
Binomial(n, k) ==
    IF k < 0 \/ n < 0 THEN 0
    ELSE IF k = 0 THEN 1
    ELSE IF n = 0 THEN 0
    ELSE Binomial(n - 1, k - 1) + Binomial(n - 1, k)

NoHeader == [ok |-> FALSE, label |-> <<>>, K |-> 0, N |-> 0, n |-> 0,
             B |-> 0, bodyNeed |-> 0, bodyHave |-> 0]

\* the header of the record at the front of rd: label, K and N of the label,
\* chunk index n, chunk size B, the body length B * C(N-1, K-1) it announces
\* and the number of bytes that follow the name
HeaderOf(rd) ==
    IF rd = <<>> \/ Len(rd) - 1 < rd[1] THEN NoHeader
    ELSE LET nm == extractFromChunkName(SubSeq(rd, 2, rd[1] + 1))
             lab == extractFromCollectionLabel(nm.collName)
         IN  IF nm.err \/ lab.err THEN NoHeader
             ELSE [ok |-> TRUE, label |-> nm.collName,
                   K |-> lab.requiredCopies, N |-> lab.totalCopies,
                   n |-> nm.chunkNumber, B |-> nm.chunkDataBytes,
                   bodyNeed |-> nm.chunkDataBytes *
                       Binomial(lab.totalCopies - 1, lab.requiredCopies - 1),
                   bodyHave |-> Len(rd) - 1 - rd[1]]

\* rd starts with a record whose name or body is cut short by the end of
\* the stream
PartialRecord(rd) ==
    /\ rd # <<>>
    /\ \/ Len(rd) - 1 < rd[1]
       \/ HeaderOf(rd).ok /\ HeaderOf(rd).bodyHave < HeaderOf(rd).bodyNeed

\* rd is a sequence of complete records that all declare K and N
RECURSIVE WholeRecords(_, _, _)
WholeRecords(rd, K, N) ==
    \/ rd = <<>>
    \/ LET h == HeaderOf(rd) IN
       /\ h.ok /\ h.K = K /\ h.N = N
       /\ h.bodyHave >= h.bodyNeed
       /\ WholeRecords(SubSeq(rd, rd[1] + 2 + h.bodyNeed, Len(rd)), K, N)

\* Decode is at the start of a chunk
AtChunk == dec.pc = "read"

(***************************************************************************)
(* C4: Decode given m streams of complete records that declare threshold   *)
(* K, with m < K, returns an error and writes nothing to the output.       *)
(***************************************************************************)
C4_TooFewStreamsFail ==
    (/\ dec.pc = "done"
     /\ Len(dec.given) < pad.RequiredCopies
     /\ \E j \in 1..Len(dec.given) : dec.given[j] # <<>>
     /\ \A j \in 1..Len(dec.given) :
            WholeRecords(dec.given[j], pad.RequiredCopies, pad.TotalCopies))
    => (dec.result = "error" /\ output = <<>>)

(***************************************************************************)
(* C6: uneven endings fail.  When at the start of a chunk some stream is   *)
(* at end-of-stream and some other still has bytes, Decode returns an      *)
(* error; and it returns success only from a chunk at whose start every    *)
(* stream is at end-of-stream.                                             *)
(***************************************************************************)
C6_UnevenEndingsFail ==
    [][(AtChunk /\ DecodeChunk) =>
         /\ (/\ \E a \in 1..Len(dec.readers) : dec.readers[a] = <<>>
             /\ \E b \in 1..Len(dec.readers) : dec.readers[b] # <<>>)
            => (dec'.pc = "done" /\ dec'.result = "error")
         /\ (dec'.pc = "done" /\ dec'.result = "ok")
            => \A a \in 1..Len(dec.readers) : dec.readers[a] = <<>>]_vars

(***************************************************************************)
(* C7: truncated record.  When at the start of a chunk some stream holds    *)
(* the length byte of a record but ends before the full name, or before    *)
(* the full body of B * P bytes, Decode returns an error in that chunk and  *)
(* writes nothing to the output for it.                                    *)
(***************************************************************************)
C7_TruncatedRecordFails ==
    [][(/\ AtChunk /\ DecodeChunk
        /\ \E j \in 1..Len(dec.readers) : PartialRecord(dec.readers[j]))
       => /\ dec'.pc = "done" /\ dec'.result = "error"
          /\ output' = output]_vars

\* the second record of a stream has lost part of its body
C7_Witness ==
    /\ dec.pc = "done" /\ dec.result = "error"
    /\ dec.tampered = "cut"
    /\ dec.chunkIndex = 2
    /\ dec.i = 2
    /\ PartialRecord(dec.readers[2])
    /\ HeaderOf(dec.readers[2]).ok
    /\ HeaderOf(dec.readers[2]).bodyHave >= 1
    /\ Len(output) = 1

(***************************************************************************)
(* C8: header consistency.  K and N of the decoding pad are those of the   *)
(* first record of the first stream; a record whose label has another K or *)
(* N, or is not the label first seen on its stream, or whose chunk index   *)
(* is not the current chunk number, makes Decode return an error.          *)
(***************************************************************************)
C8_HeaderConsistency ==
    [][(AtChunk /\ DecodeChunk) =>
         LET first == HeaderOf(dec.given[1]) IN
         first.ok =>
           /\ \A j \in 1..Len(dec.readers) :
                LET own == HeaderOf(dec.given[j])
                    h == HeaderOf(dec.readers[j])
                IN  (/\ h.ok
                     /\ \/ h.K # first.K
                        \/ h.N # first.N
                        \/ own.ok /\ h.label # own.label
                        \/ h.n # dec.chunkIndex)
                    => (dec'.pc = "done" /\ dec'.result = "error")
           /\ dec'.result # "error"
              => /\ dpad'.RequiredCopies = first.K
                 /\ dpad'.TotalCopies = first.N]_vars

\* the second record of the second stream carries another label of the same
\* K and N, and Decode has stopped there with an error
C8_Witness ==
    /\ dec.pc = "done" /\ dec.result = "error"
    /\ dec.tampered = "set"
    /\ dec.chunkIndex = 2 /\ dec.i = 2
    /\ Len(output) >= 1
    /\ LET first == HeaderOf(dec.given[1])
           own == HeaderOf(dec.given[2])
           h == HeaderOf(dec.readers[2])
       IN  /\ first.ok /\ own.ok /\ h.ok
           /\ h.K = first.K /\ h.N = first.N /\ h.n = 2
           /\ h.label # own.label
           /\ dpad.RequiredCopies = first.K

(***************************************************************************)
(* Share generation of one chunk over all random pads.                     *)
(***************************************************************************)

\* the chunks tried: length and byte values (closed under XOR)
SecShapes == {<<1, {0, 1, 2, 3}>>, <<2, {0, 1}>>}

\* the outcomes of the reads encodeOneChunk makes for one chunk of n bytes:
\* for every K-subset, K-1 pads of n bytes
PadChoices(p, n, b) ==
    [DOMAIN p.Ciphers -> [1..(p.RequiredCopies - 1) -> BytesOfLen(n, b)]]

\* encodeOneChunk, lines 1110-1129: the table of shares once the loop over
\* p.Ciphers has run on chunkData with the pads a
CiphersFor(chunkData, a) ==
    [key \in DOMAIN a |-> MakeCipher(chunkData, a[key])]

\* encodeOneChunk, lines 1132-1171: the record bodies written to the
\* collections of the letters in T
Bodies(p, T) == [l \in T |-> RecordBody(p, l)]

InitSecrecy ==
    \E param \in RunParams : \E shape \in SecShapes :
    \E chunk \in BytesOfLen(shape[1], shape[2]) :
    \E other \in BytesOfLen(shape[1], shape[2]) :
        /\ initArgs = param
        /\ initErr = "ok"
        /\ pad = NewPadForEncode(param[1], param[2]).pad
        /\ sec = [pc |-> "chunk", chunkData |-> chunk, other |-> other,
                  bytes |-> shape[2]]
        /\ enc = NoEnc /\ rng = NoRng /\ sinks = <<>>
        /\ dec = NoDec /\ dpad = EmptyPad /\ output = <<>>
        /\ host = NoHost /\ twin = NoTwin /\ mix = NoMix
        /\ parse = NoParse /\ calls = NoCalls /\ dir = NoDir

\* encodeOneChunk, lines 1110-1129, for whatever the random source returns
SecGenerate ==
    /\ sec.pc = "chunk"
    /\ \E a \in PadChoices(pad, Len(sec.chunkData), sec.bytes) :
         pad' = [pad EXCEPT !.Ciphers = CiphersFor(sec.chunkData, a)]
    /\ sec' = [sec EXCEPT !.pc = "shared"]
    /\ UNCHANGED <<initArgs, initErr, enc, rng, sinks, dec, dpad, output,
                 host, twin, mix,
                   parse, calls, dir>>

NextSecrecy == SecGenerate

SpecSecrecy == InitSecrecy /\ [][NextSecrecy]_vars

\* the number of pad choices under which the collections of T receive the
\* bodies v when the chunk is chunkData
ChoicesGiving(chunkData, T, v) ==
    Cardinality({a \in PadChoices(pad, Len(chunkData), sec.bytes) :
        Bodies([pad EXCEPT !.Ciphers = CiphersFor(chunkData, a)], T) = v})

(***************************************************************************)
(* C2: secrecy below the threshold.  For every set T of fewer than K       *)
(* collections and two chunks of the same length, every value the record   *)
(* bodies of T take is produced by as many pad choices under the one chunk *)
(* as under the other.                                                     *)
(***************************************************************************)
C2_SecrecyBelowThreshold ==
    sec.pc = "shared" =>
        \A T \in SUBSET (DOMAIN pad.Permutations) :
            Cardinality(T) < pad.RequiredCopies =>
                ChoicesGiving(sec.chunkData, T, Bodies(pad, T))
                    = ChoicesGiving(sec.other, T, Bodies(pad, T))

\* two collections of a 3-of-3 pad and two different chunks: the bodies
\* seen come from exactly one pad choice under either chunk, those of one
\* collection from four
C2_Witness ==
    /\ sec.pc = "shared"
    /\ initArgs = <<3, 3>>
    /\ sec.chunkData = <<3>> /\ sec.other = <<0>>
    /\ Bodies(pad, {<<ChA>>, <<ChA + 1>>}) =
           (<<ChA>> :> <<2>> @@ <<ChA + 1>> :> <<1>>)
    /\ ChoicesGiving(sec.other, {<<ChA>>, <<ChA + 1>>},
                     Bodies(pad, {<<ChA>>, <<ChA + 1>>})) = 1
    /\ ChoicesGiving(sec.other, {<<ChA>>}, Bodies(pad, {<<ChA>>})) = 4

(***************************************************************************)
(* The host's log of an Encode run.                                        *)
(***************************************************************************)

\* the positions of the log where the call op was made for (coll, chunk)
CallsAt(op, coll, chunk) ==
    {j \in 1..Len(host.events) :
        /\ host.events[j].op = op
        /\ host.events[j].coll = coll
        /\ host.events[j].chunk = chunk}

\* the positions of the log where newChunk handed out a sink
Opened ==
    {j \in 1..Len(host.events) :
        host.events[j].op = "newChunk" /\ ~host.events[j].err}

\* the sink obtained at position j of the log was closed later
ClosedAfter(j) ==
    \E c \in CallsAt("Close", host.events[j].coll, host.events[j].chunk) :
        c > j

EncodeReturned == enc.pc = "done"

(***************************************************************************)
(* C11: close errors propagate.  When Close of a record sink returned an   *)
(* error during Encode, Encode returns an error, never success.            *)
(***************************************************************************)
C11_CloseErrorsPropagate ==
    (/\ EncodeReturned
     /\ \E j \in 1..Len(host.events) :
           host.events[j].op = "Close" /\ host.events[j].err)
    => enc.result = "error"

(***************************************************************************)
(* C12: no sink is left open on failure.  When Encode returns an error,    *)
(* every sink that newChunk handed out has been closed.                    *)
(***************************************************************************)
C12_NoSinkLeftOpen ==
    (EncodeReturned /\ enc.result = "error")
    => \A j \in Opened : ClosedAfter(j)

\* the number of complete records at the front of the stream rd
RECURSIVE WholeCount(_)
WholeCount(rd) ==
    IF rd = <<>> THEN 0
    ELSE LET h == HeaderOf(rd) IN
         IF ~h.ok \/ h.bodyHave < h.bodyNeed THEN 0
         ELSE 1 + WholeCount(SubSeq(rd, rd[1] + 2 + h.bodyNeed, Len(rd)))

\* the positions of the log where newChunk was called
NewChunkCalls == {j \in 1..Len(host.events) : host.events[j].op = "newChunk"}

(***************************************************************************)
(* C13: Encode ordering.  newChunk is called with the chunk numbers 1, 2,  *)
(* 3, ... without gaps; when it is called for chunk n+1, the record of     *)
(* chunk n has been written whole and closed on each of the N sinks; and   *)
(* when Encode returns success every sink handed out has been closed       *)
(* exactly once.                                                           *)
(***************************************************************************)
C13_EncodeOrdering ==
    LET ev == host.events IN
    /\ \A j \in NewChunkCalls :
         IF \E i \in NewChunkCalls : i < j
         THEN \A i \in NewChunkCalls :
                (i < j /\ ~\E m \in NewChunkCalls : i < m /\ m < j)
                => ev[j].chunk \in {ev[i].chunk, ev[i].chunk + 1}
         ELSE ev[j].chunk = 1
    /\ \A j \in NewChunkCalls :
         ev[j].chunk > 1 =>
           \A c \in 1..Len(pad.Collections) :
             /\ \E k \in CallsAt("Close", c, ev[j].chunk - 1) : k < j
             /\ WholeCount(sinks[c]) >= ev[j].chunk - 1
    /\ (EncodeReturned /\ enc.result = "ok") =>
         \A j \in Opened :
           Cardinality(CallsAt("Close", ev[j].coll, ev[j].chunk)) = 1

\* a successful run of two chunks on three sinks, one of whose Close failed
C13_Witness ==
    /\ EncodeReturned /\ enc.result = "ok"
    /\ Len(pad.Collections) = 3
    /\ CallsAt("newChunk", 3, 2) # {}
    /\ \E j \in 1..Len(host.events) : host.events[j].err

(***************************************************************************)
(* Cancellation by the host.                                               *)
(***************************************************************************)

\* the runs during which the host may cancel: all-zero plaintexts, the
\* counter source, reliable sinks
InitCancelRun == InitRunWith(ZeroPlaintexts \X {NewTestRNG(0)}, FALSE)

\* the host cancels the context handed to Encode or Decode while that call
\* is running; the log keeps which call it was and the chunk it was at
CancelContext ==
    /\ host.cancelled = "no"
    /\ \/ /\ enc.pc \in {"read", "gen", "write"}
          /\ host' = [host EXCEPT !.cancelled = "Encode",
                                  !.cancelChunk = enc.chunkIndex]
       \/ /\ dec.pc = "read"
          /\ host' = [host EXCEPT !.cancelled = "Decode",
                                  !.cancelChunk = dec.chunkIndex]
    /\ UNCHANGED <<initArgs, initErr, pad, enc, rng, sinks, dec, dpad, output,
                   sec, twin, mix,
                   parse, calls, dir>>

NextCancel == NextEncode \/ NextDecode \/ CancelContext

SpecCancel == InitCancelRun /\ [][NextCancel]_vars

(***************************************************************************)
(* C14: cancellation is honoured between chunks.  A run whose context was  *)
(* cancelled while it was at chunk n returns a Cancelled error and has     *)
(* processed no chunk after n: Encode has asked for no sink of a later     *)
(* chunk, Decode has written no plaintext of a later chunk.                *)
(***************************************************************************)
C14_CancellationHonoured ==
    /\ (host.cancelled = "Encode" /\ EncodeReturned) =>
         /\ enc.result = "cancelled"
         /\ \A j \in NewChunkCalls :
              host.events[j].chunk <= host.cancelChunk
    /\ (host.cancelled = "Decode" /\ dec.pc = "done") =>
         /\ dec.result = "cancelled"
         /\ Len(output) <= host.cancelChunk * dec.chunkDataBytes

(***************************************************************************)
(* Two Encode runs side by side: the same pad parameters, the same chunk   *)
(* of plaintext, each run with its own TestRNG made from the same seed.    *)
(* Each run ranges over p.Ciphers in the order its Go map hands out.       *)
(***************************************************************************)

MaxTwinLen == 2    \* longest chunk of the two runs

\* the seeds of NewTestRNG
TwinSeeds == {0, 255}

InitTwin ==
    \E param \in RunParams : \E seed \in TwinSeeds :
    \E chunk \in UNION {BytesOfLen(n, RunBytes) : n \in 1..MaxTwinLen} :
        /\ initArgs = param
        /\ initErr = "ok"
        /\ pad = NewPadForEncode(param[1], param[2]).pad
        /\ twin = [pc |-> "gen", chunkData |-> chunk,
                   run |-> [r \in {1, 2} |->
                             [keysLeft |-> DOMAIN pad.Ciphers,
                              rng |-> NewTestRNG(seed),
                              Ciphers |-> pad.Ciphers]]]
        /\ enc = NoEnc /\ rng = NoRng /\ sinks = <<>>
        /\ dec = NoDec /\ dpad = EmptyPad /\ output = <<>>
        /\ sec = NoSec /\ host = NoHost /\ mix = NoMix
        /\ parse = NoParse /\ calls = NoCalls /\ dir = NoDir

\* encodeOneChunk, lines 1110-1129, in one of the two runs: one iteration
\* of the range over p.Ciphers
TwinGenCipher ==
    /\ twin.pc = "gen"
    /\ \E r \in {1, 2} : \E key \in twin.run[r].keysLeft :
       \E o \in RngReads(twin.run[r].rng, Len(twin.run[r].Ciphers[key]) - 1,
                         Len(twin.chunkData)) :
         /\ ~o.err
         /\ twin' = [twin EXCEPT
                       !.run[r].rng = o.rng,
                       !.run[r].Ciphers[key] = MakeCipher(twin.chunkData, o.pads),
                       !.run[r].keysLeft = @ \ {key}]
    /\ UNCHANGED <<initArgs, initErr, pad, enc, rng, sinks, dec, dpad, output,
                   sec, host, mix,
                   parse, calls, dir>>

NextTwin == TwinGenCipher

SpecTwin == InitTwin /\ [][NextTwin]_vars

(***************************************************************************)
(* C15: Encode is deterministic under a deterministic RNG.  Two runs with  *)
(* the same N, K and plaintext chunk, each with a fresh counter RNG of the *)
(* same seed, write the same bytes to every collection.                    *)
(***************************************************************************)
C15_EncodeDeterministic ==
    LET \* encodeOneChunk, lines 1132-1171: the record run r writes to
        \* collection i
        TwinRecord(r, i) ==
            LET collName == pad.Collections[i]
                lab == extractFromCollectionLabel(collName)
            IN  NameHeader(collName, 1, Len(twin.chunkData))
                \o RecordBody([pad EXCEPT !.Ciphers = twin.run[r].Ciphers],
                              lab.collLetter)
    IN
    (/\ twin.pc = "gen"
     /\ twin.run[1].keysLeft = {} /\ twin.run[2].keysLeft = {})
    => \A i \in 1..Len(pad.Collections) : TwinRecord(1, i) = TwinRecord(2, i)

\* the headers of the complete records at the front of the stream rd
RECURSIVE HeadersOf(_)
HeadersOf(rd) ==
    IF rd = <<>> THEN <<>>
    ELSE LET h == HeaderOf(rd) IN
         IF ~h.ok \/ h.bodyHave < h.bodyNeed THEN <<>>
         ELSE <<h>> \o HeadersOf(SubSeq(rd, rd[1] + 2 + h.bodyNeed, Len(rd)))

(***************************************************************************)
(* C16: chunking.  With B = outputChunkBytes div P >= 1, a successful      *)
(* Encode of L bytes leaves on every collection exactly ceil(L / B)        *)
(* records and nothing else; record n is numbered n and its name carries   *)
(* the length of chunk n: B for every chunk but the last, and L minus the  *)
(* bytes of the chunks before it for the last (L mod B when that is not    *)
(* zero).  An empty plaintext gives no record and success.                 *)
(***************************************************************************)
C16_Chunking ==
    LET B == enc.inputChunkBytes
        L == Len(enc.plaintext)
    IN  (EncodeReturned /\ B >= 1) =>
          LET chunks == (L + B - 1) \div B IN
          /\ L = 0 =>
               /\ enc.result = "ok"
               /\ \A c \in 1..Len(sinks) : sinks[c] = <<>>
          /\ enc.result = "ok" =>
               \A c \in 1..Len(sinks) :
                 LET hs == HeadersOf(sinks[c]) IN
                 /\ WholeRecords(sinks[c], pad.RequiredCopies, pad.TotalCopies)
                 /\ Len(hs) = chunks
                 /\ \A n \in 1..chunks :
                      /\ hs[n].n = n
                      /\ hs[n].label = pad.Collections[c]
                      /\ hs[n].B = IF n < chunks THEN B
                                   ELSE IF L % B # 0 THEN L % B ELSE B
                      /\ hs[n].bodyHave >= hs[n].B * pad.PermutationCount

\* a successful run whose only chunk is shorter than B
C16_Witness ==
    /\ EncodeReturned /\ enc.result = "ok"
    /\ enc.inputChunkBytes = 2 /\ Len(enc.plaintext) = 1
    /\ Len(HeadersOf(sinks[1])) = 1

(***************************************************************************)
(* The record layout, stated from the K-subset table alone.                *)
(***************************************************************************)

\* the subsets (strings of letters) in which the letter takes part
Participating(ciphers, letter) ==
    {s \in DOMAIN ciphers : Contains(s, letter)}

\* the elements of a set of strings in ascending order
Ascending(S) ==
    [r \in 1..Cardinality(S) |->
        CHOOSE s \in S : Cardinality({t \in S : StrLess(t, s)}) = r - 1]

\* the record of collection number i (1-based) for chunk n of B bytes: the
\* length of the name, the name label:n:B, then for every participating
\* subset in ascending order the share at the position of the letter in it
LayoutOf(p, i, n, B) ==
    LET letter == ChA + i - 1
        name == p.Collections[i] \o <<ChColon>> \o Itoa(n)
                                 \o <<ChColon>> \o Itoa(B)
        subsets == Ascending(Participating(p.Ciphers, letter))
    IN  <<Len(name)>> \o name \o
        Join([q \in 1..Len(subsets) |->
                p.Ciphers[subsets[q]]
                         [CHOOSE j \in 1..Len(subsets[q]) :
                              subsets[q][j] = letter]])

MaxMixLen == 2     \* longest buffer handed to the mixer

\* the byte values the sources deliver
MixBytes == {0, 1, 2}

\* the source lists of the mixers; the first one is NewDefaultRNG's
DefaultSources == <<"crypto", "math">>
MixerShapes == {DefaultSources, <<"any">>, <<"any", "any">>, <<"math", "any">>}

\* the outcomes of one s.Read(buf) with len(buf) = want
SourceRead(kind, want) ==
    LET full == {[n |-> want, bytes |-> b, err |-> FALSE] :
                    b \in BytesOfLen(want, MixBytes)}
    IN  IF kind = "math" THEN full
        ELSE IF kind = "crypto"
        THEN full \cup {[n |-> 0, bytes |-> <<>>, err |-> TRUE]}
        ELSE UNION {{[n |-> k, bytes |-> b, err |-> e] :
                        b \in BytesOfLen(k, MixBytes), e \in BOOLEAN} :
                    k \in 0..want}

InitMixer ==
    \E shape \in MixerShapes : \E L \in 0..MaxMixLen :
        /\ mix = [pc |-> "idle", Sources |-> shape, L |-> L, p |-> Zeros(L),
                  acc |-> <<>>, tmp |-> <<>>, s |-> 0, offset |-> 0,
                  delivered |-> [i \in 1..Len(shape) |-> <<>>],
                  reads |-> 0, failed |-> 0, n |-> 0, err |-> "none",
                  turn |-> FALSE]
        /\ initArgs = <<0, 0>> /\ initErr = "ok" /\ pad = EmptyPad
        /\ enc = NoEnc /\ rng = NoRng /\ sinks = <<>>
        /\ dec = NoDec /\ dpad = EmptyPad /\ output = <<>>
        /\ sec = NoSec /\ host = NoHost /\ twin = NoTwin
        /\ parse = NoParse /\ calls = NoCalls /\ dir = NoDir

\* a mixer that takes a failed read for a full one
SourceFailedIgnored(m, o) ==
    [m EXCEPT !.failed = m.s, !.offset = m.L,
              !.delivered[m.s] = @ \o o.bytes]

\* MultiRNG.Read, lines 144-146: a source returned an error
SourceFailed(m, o) ==
    [m EXCEPT !.pc = "done", !.n = 0, !.err = "error", !.failed = m.s,
              !.delivered[m.s] = @ \o o.bytes]

\* an accumulation that keeps only the last source
AccumulateLast(acc, tmp) == tmp

\* MultiRNG.Read, lines 154-156: acc[i] ^= tmp[i]
Accumulate(acc, tmp) == XorBytes(acc, tmp)

\* MultiRNG.Read, lines 129-139: the call, the accumulator, the first source
MixCall ==
    /\ mix.pc = "idle"
    /\ mix' = [mix EXCEPT !.pc = "source", !.acc = Zeros(mix.L), !.s = 1,
                          !.tmp = Zeros(mix.L), !.offset = 0]
    /\ UNCHANGED <<initArgs, initErr, pad, enc, rng, sinks, dec, dpad, output,
                   sec, host, twin,
                   parse, calls, dir>>

\* MultiRNG.Read, lines 142-151: one s.Read(tmp[offset:]); after a read of
\* no byte without error the loop turns again with nothing changed (turn
\* tells one turn of the loop from the next)
MixSourceRead ==
    /\ mix.pc = "source"
    /\ mix.offset < mix.L
    /\ \E o \in SourceRead(mix.Sources[mix.s], mix.L - mix.offset) :
         mix' = IF o.err THEN SourceFailed(mix, o)
                ELSE IF o.n = 0 THEN [mix EXCEPT !.turn = ~mix.turn]
                ELSE [mix EXCEPT
                        !.tmp = [j \in 1..mix.L |->
                                   IF j > mix.offset /\ j <= mix.offset + o.n
                                   THEN o.bytes[j - mix.offset]
                                   ELSE mix.tmp[j]],
                        !.offset = mix.offset + o.n,
                        !.delivered[mix.s] = @ \o o.bytes,
                        !.reads = mix.reads + 1]
    /\ UNCHANGED <<initArgs, initErr, pad, enc, rng, sinks, dec, dpad, output,
                   sec, host, twin,
                   parse, calls, dir>>

\* MultiRNG.Read, lines 153-161: the source is mixed in; the next source
\* gets a fresh tmp, or after the last one copy(p, acc); return len(p), nil
MixAccumulate ==
    /\ mix.pc = "source"
    /\ mix.offset >= mix.L
    /\ LET acc == Accumulate(mix.acc, mix.tmp) IN
       mix' = IF mix.s < Len(mix.Sources)
              THEN [mix EXCEPT !.acc = acc, !.s = mix.s + 1,
                               !.tmp = Zeros(mix.L), !.offset = 0]
              ELSE [mix EXCEPT !.acc = acc, !.p = acc, !.pc = "done",
                               !.n = mix.L, !.err = "nil"]
    /\ UNCHANGED <<initArgs, initErr, pad, enc, rng, sinks, dec, dpad, output,
                   sec, host, twin,
                   parse, calls, dir>>

NextMixer == MixCall \/ MixSourceRead \/ MixAccumulate

SpecMixer == InitMixer /\ [][NextMixer]_vars

MixReturned == mix.pc = "done"

(***************************************************************************)
(* C18: mixer output.  When a mixer call for a buffer of length L          *)
(* succeeds, every source has delivered exactly L bytes to this call, and  *)
(* byte j of the output is the XOR over all sources of byte j of what the  *)
(* source delivered.                                                       *)
(***************************************************************************)
C18_MixerOutput ==
    (MixReturned /\ mix.err = "nil") =>
      /\ mix.n = mix.L
      /\ Len(mix.p) = mix.L
      /\ \A i \in 1..Len(mix.Sources) : Len(mix.delivered[i]) = mix.L
      /\ \A j \in 1..mix.L :
           mix.p[j] = XorAll(<<0>>, [i \in 1..Len(mix.Sources) |->
                                       <<mix.delivered[i][j]>>])[1]

\* a successful call for two bytes on two sources, one of which delivered
\* its bytes in two reads; the sources' first bytes differ
C18_Witness ==
    /\ MixReturned /\ mix.err = "nil"
    /\ mix.L = 2 /\ Len(mix.Sources) = 2
    /\ mix.reads = 3
    /\ mix.delivered[1][1] = 1 /\ mix.delivered[2][1] = 2

C20_DefaultMixerSurvives ==
    (/\ mix.pc # "none"
     /\ mix.Sources = DefaultSources
     /\ MixReturned /\ mix.failed # 0)
    => mix.err = "nil" /\ mix.n = mix.L

(***************************************************************************)
(* The parsers of labels and chunk names applied to arbitrary strings.     *)
(***************************************************************************)

MaxLabelLen == 4   \* longest string handed to extractFromCollectionLabel
MaxFieldLen == 2   \* longest field of a name handed to extractFromChunkName
MaxNameNum == 11   \* largest chunk number and chunk size of a built name

\* the characters of the labels tried: 0 2 3 A C a + -
LabelChars == {Ch0, Ch0 + 2, Ch0 + 3, ChA, ChA + 2, ChA + 32, ChPlus, ChMinus}

\* the characters of the number fields tried: 0 1 + -
FieldChars == {Ch0, Ch0 + 1, ChPlus, ChMinus}

\* the labels in front of the names tried: 2A2 and 2C3
NameLabels == {buildCollectionLabel(2, 2, collectionLetterFromIndex(0)),
               buildCollectionLabel(2, 3, collectionLetterFromIndex(2))}

FieldStrings == UNION {BytesOfLen(n, FieldChars) : n \in 0..MaxFieldLen}

\* names of one, two, three and four fields
NameStrings ==
    NameLabels
    \cup {l \o <<ChColon>> \o f : l \in NameLabels, f \in FieldStrings}
    \cup {l \o <<ChColon>> \o f \o <<ChColon>> \o g :
             l \in NameLabels, f \in FieldStrings, g \in FieldStrings}
    \cup {l \o <<ChColon>> \o f \o <<ChColon>> \o g \o <<ChColon, Ch0 + 1>> :
             l \in NameLabels, f \in FieldStrings, g \in FieldStrings}

InitParse ==
    /\ \/ \E s \in UNION {BytesOfLen(n, LabelChars) : n \in 0..MaxLabelLen} :
            parse = [pc |-> "label", input |-> s]
       \/ \E s \in NameStrings : parse = [pc |-> "name", input |-> s]
       \/ \E l \in NameLabels : \E n \in 1..MaxNameNum : \E B \in 1..MaxNameNum :
            parse = [pc |-> "build", input |-> <<l, n, B>>]
    /\ initArgs = <<0, 0>> /\ initErr = "ok" /\ pad = EmptyPad
    /\ enc = NoEnc /\ rng = NoRng /\ sinks = <<>>
    /\ dec = NoDec /\ dpad = EmptyPad /\ output = <<>>
    /\ sec = NoSec /\ host = NoHost /\ twin = NoTwin /\ mix = NoMix
    /\ calls = NoCalls /\ dir = NoDir

\* extractFromCollectionLabel(label)
ParseLabel ==
    /\ parse.pc = "label"
    /\ parse' = [pc |-> "labelDone", input |-> parse.input,
                 result |-> extractFromCollectionLabel(parse.input)]
    /\ UNCHANGED <<initArgs, initErr, pad, enc, rng, sinks, dec, dpad, output,
                   sec, host, twin, mix, calls, dir>>

\* extractFromChunkName(chunkName)
ParseName ==
    /\ parse.pc = "name"
    /\ parse' = [pc |-> "nameDone", input |-> parse.input,
                 result |-> extractFromChunkName(parse.input)]
    /\ UNCHANGED <<initArgs, initErr, pad, enc, rng, sinks, dec, dpad, output,
                   sec, host, twin, mix, calls, dir>>

\* extractFromChunkName(buildChunkName(collName, chunkNumber, chunkDataBytes))
BuildAndParseName ==
    /\ parse.pc = "build"
    /\ LET name == buildChunkName(parse.input[1], parse.input[2],
                                  parse.input[3])
       IN  parse' = [pc |-> "buildDone", input |-> parse.input,
                     name |-> name, result |-> extractFromChunkName(name)]
    /\ UNCHANGED <<initArgs, initErr, pad, enc, rng, sinks, dec, dpad, output,
                   sec, host, twin, mix, calls, dir>>

NextParse == ParseLabel \/ ParseName \/ BuildAndParseName

SpecParse == InitParse /\ [][NextParse]_vars

AllDigits(s) == s # <<>> /\ \A j \in 1..Len(s) : IsDigit(s[j])

\* s is digits (K), one uppercase letter, digits (N) with 2 <= N <= 26,
\* 2 <= K <= N and letter - 'A' < N
WellFormedLabel(s) ==
    \E i \in 1..(Len(s) - 2) :
        /\ AllDigits(SubSeq(s, 1, i))
        /\ s[i + 1] >= ChA /\ s[i + 1] <= ChA + 25
        /\ AllDigits(SubSeq(s, i + 2, Len(s)))
        /\ LET K == DigitsValue(SubSeq(s, 1, i))
               N == DigitsValue(SubSeq(s, i + 2, Len(s)))
           IN  /\ 2 <= N /\ N <= 26
               /\ 2 <= K /\ K <= N
               /\ s[i + 1] - ChA < N

(***************************************************************************)
(* C21: label parsing.  A string is accepted exactly when it is one or     *)
(* more digits (K), one uppercase letter, one or more digits (N) with      *)
(* 2 <= N <= 26, 2 <= K <= N and letter - 'A' < N; every other string is   *)
(* rejected with an error.                                                 *)
(***************************************************************************)
C21_LabelParsing ==
    parse.pc = "labelDone" =>
        (~parse.result.err <=> WellFormedLabel(parse.input))

\* the number of ':'-separated fields of s
FieldCount(s) == 1 + Cardinality({j \in 1..Len(s) : s[j] = ChColon})

\* the field number f (1-based) of s
FieldOf(s, f) ==
    LET colons == {j \in 1..Len(s) : s[j] = ChColon}
        before == IF f = 1 THEN 0
                  ELSE CHOOSE j \in colons :
                         Cardinality({q \in colons : q < j}) = f - 2
        after == IF f = FieldCount(s) THEN Len(s) + 1
                 ELSE CHOOSE j \in colons :
                        Cardinality({q \in colons : q < j}) = f - 1
    IN  SubSeq(s, before + 1, after - 1)

\* s is a positive integer written in decimal digits
PositiveDecimal(s) == AllDigits(s) /\ DigitsValue(s) >= 1

(***************************************************************************)
(* C23: name header round trip.  Parsing the name built from a valid       *)
(* label, n >= 1 and B >= 1 returns exactly (label, n, B); a name that     *)
(* does not have exactly three ':'-separated fields, or whose n or B is    *)
(* not a positive decimal integer, is rejected with an error.              *)
(***************************************************************************)
C23_NameRoundTrip ==
    /\ parse.pc = "buildDone" =>
         /\ ~parse.result.err
         /\ parse.result.collName = parse.input[1]
         /\ parse.result.chunkNumber = parse.input[2]
         /\ parse.result.chunkDataBytes = parse.input[3]
    /\ parse.pc = "nameDone" =>
         ((\/ FieldCount(parse.input) # 3
           \/ ~PositiveDecimal(FieldOf(parse.input, 2))
           \/ ~PositiveDecimal(FieldOf(parse.input, 3)))
          => parse.result.err)

(***************************************************************************)
(* C22: K-subset table.  For valid K and N the table holds exactly C(N,K)  *)
(* subset IDs, each a strictly ascending string of K letters among the     *)
(* first N letters; for every letter L the list participating(L) holds     *)
(* exactly the subset IDs that contain L, in ascending order without       *)
(* duplicates; it has C(N,K) * K / N entries, and that number is           *)
(* PermutationCount.                                                       *)
(***************************************************************************)
C22_SubsetTable ==
    initErr = "ok" =>
      LET N == pad.TotalCopies
          K == pad.RequiredCopies
          ids == DOMAIN pad.Ciphers
          letters == {ChA + i : i \in 0..(N - 1)}
          each == (Binomial(N, K) * K) \div N
      IN  /\ N = initArgs[1] /\ K = initArgs[2]
          /\ Cardinality(ids) = Binomial(N, K)
          /\ \A s \in ids :
               /\ Len(s) = K
               /\ \A j \in 1..(Len(s) - 1) : s[j] < s[j + 1]
               /\ \A j \in 1..K : s[j] \in letters
          /\ DOMAIN pad.Permutations = {<<l>> : l \in letters}
          /\ pad.PermutationCount = each
          /\ \A l \in letters :
               LET list == pad.Permutations[<<l>>] IN
               /\ {list[q] : q \in 1..Len(list)} = {s \in ids : Contains(s, l)}
               /\ \A q \in 1..(Len(list) - 1) : StrLess(list[q], list[q + 1])
               /\ Len(list) = each

\* the table of 3-of-5: ten subsets, six for every letter
C22_Witness ==
    /\ initErr = "ok" /\ initArgs = <<5, 3>>
    /\ Cardinality(DOMAIN pad.Ciphers) = 10
    /\ pad.PermutationCount = 6
    /\ pad.Permutations[<<ChA + 4>>][1] = <<ChA, ChA + 1, ChA + 4>>

\* the pad shares of the current chunk: positions 1..K-1 of every subset
\* (position 0 is the carrier)
PadShares ==
    {<<key, i>> : key \in DOMAIN pad.Ciphers, i \in 2..pad.RequiredCopies}

(***************************************************************************)
(* C24: fresh pads.  When the shares of a chunk of B' bytes have been      *)
(* generated, the RNG has been called exactly C(N,K) * (K-1) times for     *)
(* this chunk, every pad share holds the B' bytes of one of these calls,   *)
(* and no two pad shares hold the bytes of the same call; the calls of     *)
(* this chunk come after those of the chunks before it, so no call feeds   *)
(* shares of two chunks.  (Stated on the counter source, whose bytes tell  *)
(* the calls apart.)                                                       *)
(***************************************************************************)
C24_FreshPads ==
    (enc.pc = "write" /\ rng.kind = "test") =>
      LET B == Len(enc.chunkData)
          perChunk == Binomial(pad.TotalCopies, pad.RequiredCopies)
                        * (pad.RequiredCopies - 1)
          consumed == Len(enc.plaintext) - Len(enc.input)
          from == (consumed - B) * perChunk
          \* the bytes the counter source of seed 0 returns in call c of
          \* this chunk (0-based), every call asking for n bytes
          CounterCall(first, c, n) ==
              [j \in 1..n |-> (first + c * n + j - 1) % 256]
          callOf == [sh \in PadShares |->
                       {c \in 0..(perChunk - 1) :
                          pad.Ciphers[sh[1]][sh[2]] = CounterCall(from, c, B)}]
      IN  /\ rng.reads = enc.chunkIndex * perChunk
          /\ rng.counter = consumed * perChunk
          /\ \A sh \in PadShares : Cardinality(callOf[sh]) = 1
          /\ \A sh \in PadShares : \A other \in PadShares :
               sh # other => callOf[sh] \cap callOf[other] = {}

\* the second chunk of a 3-of-3 run: two pad shares, calls 2 and 3
C24_Witness ==
    /\ enc.pc = "write" /\ rng.kind = "test"
    /\ enc.chunkIndex = 2
    /\ pad.RequiredCopies = 3
    /\ rng.reads = 4
    /\ pad.Ciphers[<<ChA, ChA + 1, ChA + 2>>][3] = <<3>>

(***************************************************************************)
(* C25: an RNG failure aborts before any record of the chunk.  When a read *)
(* of the random source has failed while the shares of chunk n were        *)
(* generated, Encode has returned an error, newChunk has not been called   *)
(* for chunk n or a later chunk, and no input has been read beyond chunk   *)
(* n.                                                                      *)
(***************************************************************************)
C25_RngFailureAborts ==
    rng.failed =>
      /\ EncodeReturned /\ enc.result = "error"
      /\ \A j \in NewChunkCalls : host.events[j].chunk < enc.chunkIndex
      /\ \A c \in 1..Len(sinks) : WholeCount(sinks[c]) = enc.chunkIndex - 1
      /\ Len(enc.plaintext) - Len(enc.input)
           = (enc.chunkIndex - 1) * enc.inputChunkBytes + Len(enc.chunkData)

\* the source failed in chunk 2 of a run on three collections, after chunk 1
\* was written
C25_Witness ==
    /\ rng.failed /\ enc.chunkIndex = 2
    /\ Len(pad.Collections) = 3
    /\ Len(host.events) = 6
    /\ enc.input = <<>>

(***************************************************************************)
(* C26: Decode read discipline.  One turn of the chunk loop reads the      *)
(* streams in list order: when the read of stream f fails, the streams     *)
(* after f have not been touched; every stream read without failure is     *)
(* left where it was when it was at its end, and is otherwise advanced by  *)
(* exactly one record of 1 + name length + B * P bytes, so that no byte of *)
(* the next chunk is read in this turn.                                    *)
(***************************************************************************)
C26_ReadDiscipline ==
    [][(AtChunk /\ DecodeChunk) =>
         LET m == Len(dec.readers)
             f == IF dec'.result = "error" /\ dec'.i > 0 THEN dec'.i
                  ELSE m + 1
         IN  /\ Len(dec'.readers) = m
             /\ \A i \in 1..m :
                  LET rd == dec.readers[i] IN
                  /\ i > f => dec'.readers[i] = rd
                  /\ (i < f /\ rd = <<>>) => dec'.readers[i] = <<>>
                  /\ (i < f /\ rd # <<>>) =>
                       LET size ==
                             1 + rd[1]
                               + extractFromChunkName(
                                   SubSeq(rd, 2, rd[1] + 1)).chunkDataBytes
                                 * dpad'.PermutationCount
                       IN  /\ size <= Len(rd)
                           /\ dec'.readers[i] = SubSeq(rd, size + 1, Len(rd))
      ]_vars

\* three streams, each advanced by its first record, with a second record
\* left to read
C26_Witness ==
    /\ dec.pc = "read" /\ dec.chunkIndex = 2
    /\ Len(dec.readers) = 3
    /\ \A i \in 1..3 :
         /\ dec.readers[i] # <<>>
         /\ Len(dec.given[i]) = 2 * Len(dec.readers[i])

(***************************************************************************)
(* C28: Decode never reads outside a record body.  Reconstruction never    *)
(* indexes a body that is missing or too short (the Go runtime would stop  *)
(* the program with an index out of range), and the share XORed for the    *)
(* i-th letter of the chosen subset is taken from the body read from the   *)
(* stream that carries this letter.                                        *)
(***************************************************************************)
C28_XorInsideBodies ==
    /\ dec.pc = "done" => dec.result # "panic"
    /\ (dec.pc = "read" /\ dec.chunkIndex > 1) =>
         LET letters == ChosenLetters(dec.states, dpad.RequiredCopies) IN
         \A i \in 1..dpad.RequiredCopies :
             dec.states[i].collectionLetter = letters[i]

(***************************************************************************)
(* Several threads calling one MultiRNG: MultiRNG.Read of                  *)
(* src/pkg/rng/rng.go under concurrent callers.  m.lock is the mixer lock; *)
(* a source's output is a stream whose bytes are named by their position   *)
(* in it, emitted[i] being the number of bytes source i has given out.     *)
(***************************************************************************)

MaxCallers == 2    \* threads calling the same mixer

Callers == 1..MaxCallers

\* the lengths and errors of SourceRead's outcomes
SourceReadSizes(kind, want) ==
    {[n |-> o.n, err |-> o.err] : o \in SourceRead(kind, want)}

InitCalls ==
    \E shape \in MixerShapes : \E Ls \in [Callers -> 0..MaxMixLen] :
        /\ calls = [pc |-> "running", Sources |-> shape, lock |-> 0,
                    emitted |-> [i \in 1..Len(shape) |-> 0],
                    threads |-> [t \in Callers |->
                        [pc |-> "idle", L |-> Ls[t], s |-> 0, offset |-> 0,
                         took |-> [i \in 1..Len(shape) |-> <<>>],
                         err |-> "none"]]]
        /\ initArgs = <<0, 0>> /\ initErr = "ok" /\ pad = EmptyPad
        /\ enc = NoEnc /\ rng = NoRng /\ sinks = <<>>
        /\ dec = NoDec /\ dpad = EmptyPad /\ output = <<>>
        /\ sec = NoSec /\ host = NoHost /\ twin = NoTwin
        /\ mix = NoMix /\ parse = NoParse /\ dir = NoDir

\* a mixer whose Lock does not exclude anybody
MixerLockOpen(c, t) == c

\* MultiRNG.Read, line 130: m.lock.Lock() has returned in thread t
MixerLock(c, t) == [c EXCEPT !.lock = t]

\* MultiRNG.Read, line 131: the deferred m.lock.Unlock() of thread t
MixerUnlock(c, t) == [c EXCEPT !.lock = IF c.lock = t THEN 0 ELSE c.lock]

\* the positions first+1 .. first+n of a source's output
Positions(first, n) == [j \in 1..n |-> first + j]

\* MultiRNG.Read, line 129: thread t calls m.Read(p) and reaches Lock
CallerCall(t) ==
    /\ calls.pc = "running"
    /\ calls.threads[t].pc = "idle"
    /\ calls' = [calls EXCEPT !.threads[t].pc = "waiting"]
    /\ UNCHANGED <<initArgs, initErr, pad, enc, rng, sinks, dec, dpad, output,
                   sec, host, twin, mix, parse, dir>>

\* MultiRNG.Read, lines 130-139: Lock returns once no thread holds the
\* lock; acc, the first source, tmp and offset
CallerLock(t) ==
    /\ calls.pc = "running"
    /\ calls.threads[t].pc = "waiting"
    /\ calls.lock = 0
    /\ calls' = [MixerLock(calls, t) EXCEPT !.threads[t].pc = "source",
                                            !.threads[t].s = 1,
                                            !.threads[t].offset = 0]
    /\ UNCHANGED <<initArgs, initErr, pad, enc, rng, sinks, dec, dpad, output,
                   sec, host, twin, mix, parse, dir>>

\* MultiRNG.Read, lines 142-151: one s.Read(tmp[offset:]) of thread t; on an
\* error the call returns and the deferred Unlock runs
CallerSourceRead(t) ==
    /\ calls.pc = "running"
    /\ calls.threads[t].pc = "source"
    /\ calls.threads[t].offset < calls.threads[t].L
    /\ LET th == calls.threads[t]
           s  == th.s
       IN  \E o \in SourceReadSizes(calls.Sources[s], th.L - th.offset) :
             LET given == [calls EXCEPT
                             !.emitted[s] = @ + o.n,
                             !.threads[t].took[s] =
                                 @ \o Positions(calls.emitted[s], o.n)]
             IN  calls' = IF o.err
                          THEN [MixerUnlock(given, t) EXCEPT
                                  !.threads[t].pc = "done",
                                  !.threads[t].err = "error"]
                          ELSE [given EXCEPT
                                  !.threads[t].offset = th.offset + o.n]
    /\ UNCHANGED <<initArgs, initErr, pad, enc, rng, sinks, dec, dpad, output,
                   sec, host, twin, mix, parse, dir>>

\* MultiRNG.Read, lines 153-161: the source is mixed in; the next source, or
\* after the last one copy(p, acc), return, and the deferred Unlock
CallerAccumulate(t) ==
    /\ calls.pc = "running"
    /\ calls.threads[t].pc = "source"
    /\ calls.threads[t].offset >= calls.threads[t].L
    /\ calls' = IF calls.threads[t].s < Len(calls.Sources)
                THEN [calls EXCEPT !.threads[t].s = @ + 1,
                                   !.threads[t].offset = 0]
                ELSE [MixerUnlock(calls, t) EXCEPT
                        !.threads[t].pc = "done",
                        !.threads[t].err = "nil"]
    /\ UNCHANGED <<initArgs, initErr, pad, enc, rng, sinks, dec, dpad, output,
                   sec, host, twin, mix, parse, dir>>

NextCalls ==
    \E t \in Callers :
        CallerCall(t) \/ CallerLock(t) \/ CallerSourceRead(t)
            \/ CallerAccumulate(t)

SpecCalls == InitCalls /\ [][NextCalls]_vars

\* thread t is between Lock and Unlock
InsideMixer(t) == calls.threads[t].pc = "source"

(***************************************************************************)
(* C27: mixer calls are mutually exclusive.  When several threads call the *)
(* same MultiRNG, a call holds the mixer lock from its first source read   *)
(* until its result is copied out: at most one thread is inside the mixer  *)
(* and it is the lock's holder; the bytes a call takes from each source    *)
(* are contiguous in that source's output; no source byte contributes to   *)
(* two calls; and a call that has not returned never leaves the mixer      *)
(* without a step to take.                                                 *)
(***************************************************************************)
C27_MixerCallsExclusive ==
    LET Contiguous(q) == \A j \in 1..(Len(q) - 1) : q[j + 1] = q[j] + 1
        Range(q) == {q[j] : j \in 1..Len(q)}
    IN
    /\ \A t \in Callers : InsideMixer(t) => calls.lock = t
    /\ \A t, u \in Callers : (InsideMixer(t) /\ InsideMixer(u)) => t = u
    /\ \A t \in Callers : \A i \in 1..Len(calls.Sources) :
         Contiguous(calls.threads[t].took[i])
    /\ \A t, u \in Callers : \A i \in 1..Len(calls.Sources) :
         t # u => Range(calls.threads[t].took[i])
                    \cap Range(calls.threads[u].took[i]) = {}
    /\ (\E t \in Callers : calls.threads[t].pc \in {"waiting", "source"})
         => \E t \in Callers :
              \/ calls.threads[t].pc = "waiting" /\ calls.lock = 0
              \/ InsideMixer(t)

\* two calls of two bytes each have returned from a mixer of two sources,
\* the second having taken the bytes that follow the first one's
C27_Witness ==
    /\ Len(calls.Sources) = 2
    /\ \A t \in Callers :
         /\ calls.threads[t].pc = "done" /\ calls.threads[t].err = "nil"
         /\ calls.threads[t].L = 2
    /\ calls.threads[2].took = <<<<1, 2>>, <<1, 2>>>>
    /\ calls.threads[1].took = <<<<3, 4>>, <<3, 4>>>>

(***************************************************************************)
(* DecodeDirectory of src/pkg/padlock/padlock_test.go, from the creation   *)
(* of the pipe on: the caller's thread (pad creation, Decode writing the   *)
(* decoded chunks to the pipe's write end pw, pw.Close, the wait for the   *)
(* helper) and the deserialization goroutine reading the read end pr.      *)
(* io.Pipe is synchronous: a Write returns when the reader has consumed    *)
(* it, or with an error when the pipe has been closed.                     *)
(***************************************************************************)

MaxDirN == 3        \* most collections found in the input directory
MaxDirChunks == 2   \* most chunks Decode writes to the pipe

\* Decode fails before writing chunk failAt + 1; NoFailure: it does not fail
NoFailure == MaxDirChunks + 1

\* lines 416-454: the pipe, the done channel and the started goroutine
InitDir ==
    \E n \in 1..MaxDirN : \E total \in 0..MaxDirChunks :
    \E failAt \in (0..total) \cup {NoFailure} :
        /\ dir = [pc |-> "newpad", result |-> "none", n |-> n,
                  total |-> total, failAt |-> failAt, written |-> 0,
                  pw |-> "open", inPipe |-> FALSE,
                  helper |-> "reading", deserializeErr |-> FALSE]
        /\ initArgs = <<0, 0>> /\ initErr = "ok" /\ pad = EmptyPad
        /\ enc = NoEnc /\ rng = NoRng /\ sinks = <<>>
        /\ dec = NoDec /\ dpad = EmptyPad /\ output = <<>>
        /\ sec = NoSec /\ host = NoHost /\ twin = NoTwin
        /\ mix = NoMix /\ parse = NoParse /\ calls = NoCalls

\* lines 460-464: pad.NewPadForDecode(ctx, n); on an error return err
DirNewPad ==
    /\ dir.pc = "newpad"
    /\ dir' = IF NewPadForDecode(dir.n).err
              THEN [dir EXCEPT !.pc = "returned", !.result = "padErr"]
              ELSE [dir EXCEPT !.pc = "decode"]
    /\ UNCHANGED <<initArgs, initErr, pad, enc, rng, sinks, dec, dpad, output,
                   sec, host, twin, mix, parse, calls>>

\* line 478, inside Decode: one decoded chunk is written to pw
DirDecodeWrite ==
    /\ dir.pc = "decode"
    /\ dir.written < dir.total /\ dir.written # dir.failAt
    /\ ~dir.inPipe
    /\ dir.pw = "open"
    /\ dir' = [dir EXCEPT !.inPipe = TRUE, !.written = @ + 1]
    /\ UNCHANGED <<initArgs, initErr, pad, enc, rng, sinks, dec, dpad, output,
                   sec, host, twin, mix, parse, calls>>

\* lines 478-482: Decode returns an error, because of its input streams or
\* because the write end was closed under it; return without pw.Close
DirDecodeFails ==
    /\ dir.pc = "decode"
    /\ ~dir.inPipe
    /\ \/ dir.written = dir.failAt
       \/ dir.written < dir.total /\ dir.pw # "open"
    /\ dir' = [dir EXCEPT !.pc = "returned", !.result = "decodeErr"]
    /\ UNCHANGED <<initArgs, initErr, pad, enc, rng, sinks, dec, dpad, output,
                   sec, host, twin, mix, parse, calls>>

\* line 485: pw.Close()
PipeClose(d) == IF d.pw = "open" THEN "closed" ELSE d.pw

\* lines 478-489: Decode has returned nil; pw.Close()
DirClosePipe ==
    /\ dir.pc = "decode"
    /\ ~dir.inPipe
    /\ dir.written = dir.total /\ dir.failAt = NoFailure
    /\ dir' = [dir EXCEPT !.pc = "wait", !.pw = PipeClose(dir)]
    /\ UNCHANGED <<initArgs, initErr, pad, enc, rng, sinks, dec, dpad, output,
                   sec, host, twin, mix, parse, calls>>

\* lines 498-500 and 507-521: done is closed; the result is deserializeErr
DirWaitDone ==
    /\ dir.pc = "wait"
    /\ dir.helper = "done"
    /\ dir' = [dir EXCEPT !.pc = "returned",
                          !.result = IF dir.deserializeErr THEN "deserializeErr"
                                     ELSE "ok"]
    /\ UNCHANGED <<initArgs, initErr, pad, enc, rng, sinks, dec, dpad, output,
                   sec, host, twin, mix, parse, calls>>

\* lines 501-503: the timer fires before done is closed
DirTimeout ==
    /\ dir.pc = "wait"
    /\ dir.helper # "done"
    /\ dir' = [dir EXCEPT !.pc = "returned", !.result = "timeout"]
    /\ UNCHANGED <<initArgs, initErr, pad, enc, rng, sinks, dec, dpad, output,
                   sec, host, twin, mix, parse, calls>>

\* lines 433-453: the goroutine reads what was written to the pipe; the
\* deserializer goes on, or fails: pw.CloseWithError, and close(done)
HelperRead ==
    /\ dir.helper = "reading"
    /\ dir.inPipe
    /\ \E o \in {"more", "fail"} :
         dir' = IF o = "more" THEN [dir EXCEPT !.inPipe = FALSE]
                ELSE [dir EXCEPT !.inPipe = FALSE, !.helper = "done",
                                 !.deserializeErr = TRUE,
                                 !.pw = IF dir.pw = "open" THEN "closedErr"
                                        ELSE dir.pw]
    /\ UNCHANGED <<initArgs, initErr, pad, enc, rng, sinks, dec, dpad, output,
                   sec, host, twin, mix, parse, calls>>

\* lines 433-454: the goroutine's read returns the end of the pipe, the
\* deserializer returns with or without an error, and close(done)
HelperEOF ==
    /\ dir.helper = "reading"
    /\ ~dir.inPipe
    /\ dir.pw # "open"
    /\ \E e \in BOOLEAN :
         dir' = [dir EXCEPT !.helper = "done", !.deserializeErr = e]
    /\ UNCHANGED <<initArgs, initErr, pad, enc, rng, sinks, dec, dpad, output,
                   sec, host, twin, mix, parse, calls>>

NextDir ==
    \/ DirNewPad \/ DirDecodeWrite \/ DirDecodeFails \/ DirClosePipe
    \/ DirWaitDone \/ DirTimeout \/ HelperRead \/ HelperEOF

SpecDir == InitDir /\ [][NextDir]_vars

(***************************************************************************)
(* C29: DecodeDirectory does not strand its helper.  On every path on      *)
(* which DecodeDirectory returns after it has started the deserialization  *)
(* goroutine (pad creation failure, Decode failure, success, timeout) the  *)
(* write end of the pipe has been closed, so the goroutine is not left     *)
(* blocked reading the pipe.                                               *)
(***************************************************************************)
C29_HelperNotStranded ==
    dir.pc = "returned" => dir.pw # "open"

(***************************************************************************)
(* Mixer termination.  The mixer's thread keeps running (weak fairness of  *)
(* its steps); what a source returns on each call is the source's choice.  *)
(***************************************************************************)

SpecMixerFair == InitMixer /\ [][NextMixer]_vars /\ WF_vars(NextMixer)

(***************************************************************************)
(* C30: mixer termination.  A mixer call returns, with a full buffer or    *)
(* with an error, whenever every individual source call returns; a source  *)
(* that keeps returning zero bytes without an error does not make the      *)
(* mixer loop forever.                                                     *)
(***************************************************************************)
C30_MixerTerminates == (mix.pc = "source") ~> MixReturned

====
